---- MODULE Spec2Model ----
(***************************************************************************)
(* Resource scheduler (src/utils/resource_manager.py), pipeline stages     *)
(* (src/parsers/*.py) and session orchestrator (src/core/app_manager.py)   *)
(* of the Ozon parser, as state machines.                                  *)
(*                                                                         *)
(* _active_sessions is a Python dict: an insertion-ordered map.  It is     *)
(* modelled as a sequence of UserSession records in insertion order, with  *)
(* at most one record per key by construction of the dict operations.      *)
(***************************************************************************)
EXTENDS Integers, Sequences, FiniteSets, TLC

\* ---------------------------------------------------------------- constants
MAX_TOTAL_WORKERS == 15
MAX_WORKERS_PER_USER == 5
MIN_WORKERS_PER_USER == 2
SESSION_TIMEOUT_MINUTES == 30

\* ------------------------------------------------------------------- bounds
\* users of the scheduler specification whose stages start and end freely
NumUsers == 2
\* threads calling the scheduler concurrently
NumThreads == 2
\* the clock advances TickMinutes at a time, MaxTicks times at most
MaxTicks == 2
TickMinutes == 30
\* jobs of further users that arrive one after the other and stay in their stage
MaxBackground == 7
\* threads calling start_parsing and stop_parsing (the bot, the GUI)
NumCtl == 1
\* start_parsing calls that are accepted, over a run
MaxStarts == 2
\* the counts passed to update_progress are 1..MaxProcessed
MaxProcessed == 2

Users == 1..NumUsers
Threads == 1..NumThreads
Stages == {"links", "products", "sellers"}
Ctl == 1..NumCtl
\* user_id = None
NoUser == 0

VARIABLES
    active_sessions,  \* ResourceManager._active_sessions
    now,              \* datetime.now(), in ticks
    frame,            \* per thread: the start_parsing_session call in progress
    caller,           \* per thread: a direct caller of the scheduler (a stage)
    bg,               \* the background jobs: the workers of those that arrived
    active_parsing_users,  \* AppManager.active_parsing_users
    is_running,       \* AppManager.is_running
    stop_event,       \* AppManager.stop_event
    user_results,     \* AppManager.user_results
    last_results,     \* AppManager.last_results
    task,             \* per thread: a job (_parsing_task_wrapper)
    ctl,              \* per control thread: its call of start_parsing
    started,          \* the start_parsing calls accepted so far
    job,              \* one job (_parsing_task) with the records it handles
    call              \* one call of a function: its arguments and its result

rmvars == <<active_sessions, now, frame, caller, bg>>
jvars == <<job, call>>
amvars == <<active_parsing_users, is_running, stop_event, user_results,
            last_results, task, ctl, started, jvars>>
vars == <<active_sessions, now, frame, caller, bg, active_parsing_users,
          is_running, stop_event, user_results, last_results, task, ctl, started,
          job, call>>

\* ------------------------------------------------------- the session table
HasSession(S, u) == \E i \in 1..Len(S) : S[i].user_id = u

IndexOf(S, u) == CHOOSE i \in 1..Len(S) : S[i].user_id = u

SessionOf(S, u) == S[IndexOf(S, u)]

\* UserSession(user_id, start_time, current_stage, allocated_workers=0,
\* total_items), processed_items defaulting to 0
UserSession(u, t, stage, total) ==
    [user_id |-> u, start_time |-> t, current_stage |-> stage,
     allocated_workers |-> 0, total_items |-> total, processed_items |-> 0]

\* the update of an existing session: start_time is left as it is
UpdateSession(s, stage, total) ==
    [s EXCEPT !.current_stage = stage, !.total_items = total,
              !.processed_items = 0]

RemoveSession(S, u) == SelectSeq(S, LAMBDA s : s.user_id # u)

\* a locked part that replaces the session by a new one
CreateOrUpdate_Fresh(S, u, stage, total, t) ==
    Append(RemoveSession(S, u), UserSession(u, t, stage, total))

\* start_parsing_session, the part under the lock
CreateOrUpdate(S, u, stage, total, t) ==
    IF HasSession(S, u)
    THEN [S EXCEPT ![IndexOf(S, u)] = UpdateSession(S[IndexOf(S, u)], stage, total)]
    ELSE Append(S, UserSession(u, t, stage, total))

Clamp(x, lo, hi) == IF x < lo THEN lo ELSE IF x > hi THEN hi ELSE x

\* position of session i in descending order of creation time
AgeRank_YoungestFirst(S, i) ==
    1 + Cardinality({j \in 1..Len(S) :
                       \/ S[j].start_time > S[i].start_time
                       \/ S[j].start_time = S[i].start_time /\ j > i})

\* position of session i in ascending order of creation time (stable)
AgeRank(S, i) ==
    1 + Cardinality({j \in 1..Len(S) :
                       \/ S[j].start_time < S[i].start_time
                       \/ S[j].start_time = S[i].start_time /\ j < i})

BaseShare(n) ==
    Clamp(MAX_TOTAL_WORKERS \div n, MIN_WORKERS_PER_USER, MAX_WORKERS_PER_USER)

\* the units left after every session got the base share, handed out one at a
\* time, oldest session first, to sessions below the per-user maximum
RECURSIVE HandOut(_, _, _)
HandOut(alloc, rem, r) ==
    IF rem = 0 \/ \A k \in DOMAIN alloc : alloc[k] >= MAX_WORKERS_PER_USER
    THEN alloc
    ELSE LET k == ((r - 1) % Len(alloc)) + 1
         IN  IF alloc[k] < MAX_WORKERS_PER_USER
             THEN HandOut([alloc EXCEPT ![k] = @ + 1], rem - 1, k + 1)
             ELSE HandOut(alloc, rem, k + 1)

\* allocation by age rank for n sessions
Shares(n) ==
    LET base == BaseShare(n)
        flat == [k \in 1..n |-> base]
    IN  IF base * n < MAX_TOTAL_WORKERS /\ base < MAX_WORKERS_PER_USER
        THEN HandOut(flat, MAX_TOTAL_WORKERS - base * n, 1)
        ELSE flat

\* _redistribute_workers
RedistributeWorkers(S) ==
    IF Len(S) = 0 THEN S
    ELSE [i \in 1..Len(S) |->
             [S[i] EXCEPT !.allocated_workers = Shares(Len(S))[AgeRank(S, i)]]]

\* a release that runs the redistribution whether or not it removed a session
FinishSession_Redistributing(S, u) == RedistributeWorkers(RemoveSession(S, u))

\* finish_parsing_session
FinishSession(S, u) ==
    IF HasSession(S, u) THEN RedistributeWorkers(RemoveSession(S, u)) ELSE S

\* an update that creates the session it does not find
UpdateProgress_Creating(S, u, n) ==
    IF HasSession(S, u)
    THEN [S EXCEPT ![IndexOf(S, u)].processed_items = n]
    ELSE Append(S, [UserSession(u, 0, "idle", 0) EXCEPT !.processed_items = n])

\* update_progress
UpdateProgress(S, u, n) ==
    IF HasSession(S, u)
    THEN [S EXCEPT ![IndexOf(S, u)].processed_items = n]
    ELSE S

\* the background sweep: sessions created longer ago than the timeout are removed
Expired(s, t) == (t - s.start_time) * TickMinutes > SESSION_TIMEOUT_MINUTES

CleanupExpired(S, t) ==
    IF \E i \in 1..Len(S) : Expired(S[i], t)
    THEN RedistributeWorkers(SelectSeq(S, LAMBDA s : ~Expired(s, t)))
    ELSE S

\* get_status()['total_allocated_workers']
RECURSIVE SumAllocated(_)
SumAllocated(S) ==
    IF Len(S) = 0 THEN 0 ELSE Head(S).allocated_workers + SumAllocated(Tail(S))

\* ------------------------------------------- start_parsing_session, by steps
\* The lock is released after the session is created or updated (line 91);
\* the redistribution (line 95) and the read of the allocation (line 97) are
\* separate steps of the calling thread.
\* existed: which branch the locked part took (it logs an update or a creation)
NoFrame == [pc |-> "none", user |-> 0, stage |-> "none", existed |-> FALSE]

KeyError == -1

SPS_Lock(th, u, stage, total) ==
    /\ frame[th].pc = "none"
    /\ active_sessions' = CreateOrUpdate(active_sessions, u, stage, total, now)
    /\ frame' = [frame EXCEPT ![th] = [pc |-> "created", user |-> u, stage |-> stage,
                                       existed |-> HasSession(active_sessions, u)]]

SPS_Redistribute(th) ==
    /\ frame[th].pc = "created"
    /\ active_sessions' = RedistributeWorkers(active_sessions)
    /\ frame' = [frame EXCEPT ![th].pc = "redistributed"]

\* self._active_sessions[user_id].allocated_workers
SPS_Result(th) ==
    IF HasSession(active_sessions, frame[th].user)
    THEN SessionOf(active_sessions, frame[th].user).allocated_workers
    ELSE KeyError

\* ------------------------------------------------- a stage, as the parsers run it
LinkItems == 3
ProductItems == 2
SellerItems == 1

ItemsOf(stage) ==
    CASE stage = "links" -> LinkItems
      [] stage = "products" -> ProductItems
      [] OTHER -> SellerItems

\* a stage that starts as many workers as the global ceiling allows
StageWorkers_Ceiling(allocated_workers) == MAX_TOTAL_WORKERS

\* parse_products / parse_sellers: one worker, or allocated_workers of them
StageWorkers(allocated_workers) ==
    IF allocated_workers = 1 THEN 1 ELSE allocated_workers

\* arg: the count passed to update_progress; at: the time of the call
Idle ==
    [pc |-> "idle", user |-> 0, stage |-> "none", ret |-> 0, workers |-> 0,
     arg |-> 0, at |-> 0]

\* a thread enters a stage of user u: the admission begins
CallStart(th, u, stage) ==
    /\ caller[th].pc = "idle"
    /\ SPS_Lock(th, u, stage, ItemsOf(stage))
    /\ caller' = [caller EXCEPT ![th] = [Idle EXCEPT !.pc = "admitting",
                                                     !.user = u, !.stage = stage,
                                                     !.at = now]]
    /\ UNCHANGED <<now, bg, amvars>>

CallRedistribute(th) ==
    /\ caller[th].pc = "admitting"
    /\ SPS_Redistribute(th)
    /\ UNCHANGED <<now, caller, bg, amvars>>

\* the admission returns; the link stage ignores the value and never releases,
\* a KeyError leaves the stage before its try block
CallReturn(th) ==
    /\ caller[th].pc = "admitting"
    /\ frame[th].pc = "redistributed"
    /\ frame' = [frame EXCEPT ![th] = NoFrame]
    /\ caller' = [caller EXCEPT ![th] =
          IF SPS_Result(th) = KeyError
          THEN [Idle EXCEPT !.pc = "raised", !.user = frame[th].user,
                            !.stage = frame[th].stage, !.ret = KeyError]
          ELSE IF frame[th].stage = "links"
          THEN [Idle EXCEPT !.pc = "linking", !.user = frame[th].user,
                            !.stage = "links", !.ret = SPS_Result(th)]
          ELSE [@ EXCEPT !.pc = "stage", !.ret = SPS_Result(th),
                         !.workers = StageWorkers(SPS_Result(th)), !.at = 0]]
    /\ UNCHANGED <<active_sessions, now, bg, amvars>>

\* the stage's workers are joined; finally: finish_parsing_session(user_id)
StageEnd(th) ==
    /\ caller[th].pc = "stage"
    /\ active_sessions' = FinishSession(active_sessions, caller[th].user)
    /\ caller' = [caller EXCEPT ![th] = Idle]
    /\ UNCHANGED <<now, frame, bg, amvars>>

\* the link stage ends, or the exception has propagated: no release; or a
\* call of finish_parsing_session or update_progress returns
CallerDone(th) ==
    /\ caller[th].pc \in {"linking", "raised", "finished", "progressed"}
    /\ caller' = [caller EXCEPT ![th] = Idle]
    /\ UNCHANGED <<active_sessions, now, frame, bg, amvars>>

\* finish_parsing_session(u): the whole body is under the lock
CallFinish(th, u) ==
    /\ caller[th].pc = "idle"
    /\ active_sessions' = FinishSession(active_sessions, u)
    /\ caller' = [caller EXCEPT ![th] = [Idle EXCEPT !.pc = "finished", !.user = u]]
    /\ UNCHANGED <<now, frame, bg, amvars>>

\* update_progress(u, n): the whole body is under the lock
CallUpdateProgress(th, u, n) ==
    /\ caller[th].pc = "idle"
    /\ active_sessions' = UpdateProgress(active_sessions, u, n)
    /\ caller' = [caller EXCEPT ![th] = [Idle EXCEPT !.pc = "progressed", !.user = u,
                                                     !.arg = n, !.at = now]]
    /\ UNCHANGED <<now, frame, bg, amvars>>

Tick ==
    /\ now < MaxTicks
    /\ now' = now + 1
    /\ UNCHANGED <<active_sessions, frame, caller, bg, amvars>>

\* cleanup_loop: _cleanup_expired_session() once a minute
Sweep ==
    /\ active_sessions' = CleanupExpired(active_sessions, now)
    /\ UNCHANGED <<now, frame, caller, bg, amvars>>

\* a job thread that does not run
FreeTask ==
    [pc |-> "free", stage |-> "none", user |-> NoUser, ret |-> 0, holdP |-> 0, holdS |-> 0,
     links |-> FALSE, sellers |-> FALSE, stopAt |-> 0]

\* no job with records, no function call
NoJob == [pc |-> "none"]

NoCall == [op |-> "none"]

\* raised: the except clause of start_parsing (line 65) has run
IdleCtl == [pc |-> "idle", user |-> NoUser, ret |-> "none", raised |-> FALSE]

InitRM ==
    /\ active_sessions = <<>>
    /\ now = 0
    /\ frame = [th \in 0..NumThreads |-> NoFrame]
    /\ caller = [th \in Threads |-> Idle]
    /\ bg = <<>>
    /\ active_parsing_users = {}
    /\ is_running = FALSE
    /\ stop_event = FALSE
    /\ user_results = [u \in Users |-> 0]
    /\ last_results = 0
    /\ task = [th \in Threads |-> FreeTask]
    /\ ctl = [c \in Ctl |-> IdleCtl]
    /\ started = 0
    /\ job = NoJob
    /\ call = NoCall

NextRM ==
    \/ \E th \in Threads, u \in Users, stage \in Stages : CallStart(th, u, stage)
    \/ \E th \in Threads : CallRedistribute(th)
    \/ \E th \in Threads : CallReturn(th)
    \/ \E th \in Threads : StageEnd(th)
    \/ \E th \in Threads : CallerDone(th)
    \/ \E th \in Threads, u \in Users : CallFinish(th, u)
    \/ \E th \in Threads, u \in Users, n \in 1..MaxProcessed :
          CallUpdateProgress(th, u, n)
    \/ Tick
    \/ Sweep

SpecRM == InitRM /\ [][NextRM]_vars

\* ------------------------------------------------------ many users at a time
\* Jobs of the users BgUsers arrive one by one (each admission returns before
\* the next job starts) and stay in their product stage; thread 0 stands for
\* the job that is being admitted.
BgStart ==
    /\ Len(bg) < MaxBackground
    /\ SPS_Lock(0, NumUsers + Len(bg) + 1, "products", ItemsOf("products"))
    /\ UNCHANGED <<now, caller, bg, amvars>>

BgRedistribute ==
    /\ SPS_Redistribute(0)
    /\ UNCHANGED <<now, caller, bg, amvars>>

BgReturn ==
    /\ frame[0].pc = "redistributed"
    /\ SPS_Result(0) # KeyError
    /\ frame' = [frame EXCEPT ![0] = NoFrame]
    /\ bg' = Append(bg, StageWorkers(SPS_Result(0)))
    /\ UNCHANGED <<active_sessions, now, caller, amvars>>

\* one freely running thread and user beside the arriving jobs
NextOver ==
    \/ \E stage \in Stages : CallStart(1, 1, stage)
    \/ CallRedistribute(1)
    \/ CallReturn(1)
    \/ StageEnd(1)
    \/ CallerDone(1)
    \/ CallFinish(1, 1)
    \/ BgStart
    \/ BgRedistribute
    \/ BgReturn

SpecOver == InitRM /\ [][NextOver]_vars

\* ============================================================== AppManager
\* start_parsing, line 43
AlreadyActive_Never(u) == FALSE

AlreadyActive(u) == u # NoUser /\ u \in active_parsing_users

\* stop_parsing, line 111: the signal is raised when nobody is active any more
RaisesSignal_Always(active) == TRUE

RaisesSignal(active) == active = {}

Launching == {c \in Ctl : ctl[c].pc \in {"add", "flag", "flag2", "launch"}}

Busy == Cardinality({t \in Threads : task[t].pc # "free"}) + Cardinality(Launching)

\* start_parsing, lines 41-45 (under parsing_lock): a second start is rejected
StartParsing(c, u) ==
    /\ ctl[c].pc = "idle"
    /\ Busy < NumThreads
    /\ started < MaxStarts
    /\ ctl' = [ctl EXCEPT ![c] =
                 IF AlreadyActive(u)
                 THEN [pc |-> "returned", user |-> u, ret |-> "false", raised |-> FALSE]
                 ELSE [pc |-> "add", user |-> u, ret |-> "none", raised |-> FALSE]]
    /\ started' = IF AlreadyActive(u) THEN started ELSE started + 1
    /\ UNCHANGED <<rmvars, jvars, active_parsing_users, is_running, stop_event,
                   user_results, last_results, task>>

\* lines 48-49, outside the lock
StartParsing_Add(c) ==
    /\ ctl[c].pc = "add"
    /\ active_parsing_users' =
         IF ctl[c].user # NoUser THEN active_parsing_users \cup {ctl[c].user}
         ELSE active_parsing_users
    /\ ctl' = [ctl EXCEPT ![c].pc = "flag"]
    /\ UNCHANGED <<rmvars, jvars, started, is_running, stop_event, user_results, last_results, task>>

\* lines 52-53
StartParsing_Flag(c) ==
    /\ ctl[c].pc = "flag"
    /\ IF is_running
       THEN /\ ctl' = [ctl EXCEPT ![c].pc = "launch"]
            /\ UNCHANGED stop_event
       ELSE /\ stop_event' = FALSE
            /\ ctl' = [ctl EXCEPT ![c].pc = "flag2"]
    /\ UNCHANGED <<rmvars, jvars, started, active_parsing_users, is_running, user_results,
                   last_results, task>>

\* line 54
StartParsing_Flag2(c) ==
    /\ ctl[c].pc = "flag2"
    /\ is_running' = TRUE
    /\ ctl' = [ctl EXCEPT ![c].pc = "launch"]
    /\ UNCHANGED <<rmvars, jvars, started, active_parsing_users, stop_event, user_results,
                   last_results, task>>

\* lines 57-64: the job thread starts
StartParsing_Launch(c) ==
    /\ ctl[c].pc = "launch"
    /\ \E t \in Threads :
          /\ task[t].pc = "free"
          /\ \A t2 \in Threads : task[t2].pc = "free" => t <= t2
          /\ task' = [task EXCEPT ![t] = [FreeTask EXCEPT !.pc = "admit",
                                             !.stage = "links", !.user = ctl[c].user]]
    /\ ctl' = [ctl EXCEPT ![c] = [pc |-> "returned", user |-> ctl[c].user, ret |-> "true",
                                  raised |-> FALSE]]
    /\ UNCHANGED <<rmvars, jvars, started, active_parsing_users, is_running, stop_event,
                   user_results, last_results>>

\* a rollback that clears the marking of every user
RolledBack_Everyone(active, u) == {}

\* lines 68-70: the marking of the user is removed
RolledBack(active, u) == active \ {u}

\* lines 65-74: the thread could not be started; the marking is rolled back
StartParsing_LaunchFails(c) ==
    /\ ctl[c].pc = "launch"
    /\ LET left == RolledBack(active_parsing_users, ctl[c].user)
       IN  /\ active_parsing_users' = left
           /\ is_running' = IF left = {} THEN FALSE ELSE is_running
    /\ ctl' = [ctl EXCEPT ![c] = [pc |-> "returned", user |-> ctl[c].user, ret |-> "false",
                                  raised |-> TRUE]]
    /\ UNCHANGED <<rmvars, jvars, started, stop_event, user_results, last_results, task>>

StageNo(stage) ==
    CASE stage = "links" -> 1
      [] stage = "products" -> 2
      [] stage = "sellers" -> 3
      [] OTHER -> 4

InStage(j) == j.pc \in {"admitting", "run"}

\* stop_parsing(user_id), lines 96-116, all of it under parsing_lock.
\* stopAt records the stage a job was in when its user was stopped.
StopParsing(c, u) ==
    /\ ctl[c].pc = "idle"
    /\ LET left == IF u # NoUser THEN active_parsing_users \ {u} ELSE {}
       IN  /\ active_parsing_users' = left
           /\ IF RaisesSignal(left)
              THEN stop_event' = TRUE /\ is_running' = FALSE
              ELSE UNCHANGED <<stop_event, is_running>>
    /\ task' = [t \in Threads |->
                  IF u # NoUser /\ task[t].user = u /\ InStage(task[t])
                     /\ task[t].stopAt = 0
                  THEN [task[t] EXCEPT !.stopAt = StageNo(task[t].stage)]
                  ELSE task[t]]
    /\ ctl' = [ctl EXCEPT ![c] = [pc |-> "returned", user |-> u, ret |-> "stopped",
                                  raised |-> FALSE]]
    /\ UNCHANGED <<rmvars, jvars, started, user_results, last_results>>

CtlReturn(c) ==
    /\ ctl[c].pc = "returned"
    /\ ctl' = [ctl EXCEPT ![c] = IdleCtl]
    /\ UNCHANGED <<rmvars, jvars, started, active_parsing_users, is_running, stop_event,
                   user_results, last_results, task>>

\* ---------------------------------------------------------- _parsing_task
amrest == <<active_parsing_users, is_running, stop_event, user_results,
            last_results, ctl, started, jvars>>

\* a return that goes on to store a bundle
Leave_Storing(j) == [j EXCEPT !.pc = "store_user"]

\* the job leaves _parsing_task (a return or an exception)
Leave(j) == [j EXCEPT !.pc = "finalizer"]

\* _calculate_optimal_workers, with max_workers = 5
CalculateOptimalWorkers(n) ==
    IF n <= 10 THEN 1 ELSE IF n <= 25 THEN 2 ELSE IF n <= 50 THEN 3 ELSE 5

\* _parse_single_worker without its finally
SingleWorkerClosed_NoFinally(holding) == TRUE

\* _parse_single_worker: finally worker.close()
SingleWorkerClosed(holding) == holding = 0

\* _parse_multiple_workers: every worker is joined and closed
WorkersJoined(holding) == holding = 0

StageMayReturn(workers, holding) ==
    IF workers = 1 THEN SingleWorkerClosed(holding) ELSE WorkersJoined(holding)

\* parser.cleanup(): closes the workers the parser keeps (the single worker is
\* a local of _parse_single_worker)
Cleanup(workers, holding) == IF workers = 1 THEN holding ELSE 0

Holding(j, stage) == IF stage = "products" THEN j.holdP ELSE j.holdS

SetHolding(j, stage, h) ==
    IF stage = "products" THEN [j EXCEPT !.holdP = h] ELSE [j EXCEPT !.holdS = h]

\* link_parser.start_parsing: the session of the link stage is registered
LinksAdmit(t) ==
    /\ task[t].pc = "admit" /\ task[t].stage = "links"
    /\ IF task[t].user = NoUser
       THEN /\ task' = [task EXCEPT ![t].pc = "run"]
            /\ UNCHANGED <<active_sessions, frame>>
       ELSE /\ SPS_Lock(t, task[t].user, "links", ItemsOf("links"))
            /\ task' = [task EXCEPT ![t].pc = "admitting"]
    /\ UNCHANGED <<now, caller, bg, amrest>>

TaskRedistribute(t) ==
    /\ task[t].pc = "admitting"
    /\ SPS_Redistribute(t)
    /\ UNCHANGED <<now, caller, bg, amvars>>

\* the link stage goes on after its admission; a KeyError fails the stage
LinksAdmitted(t) ==
    /\ task[t].pc = "admitting" /\ task[t].stage = "links"
    /\ frame[t].pc = "redistributed"
    /\ frame' = [frame EXCEPT ![t] = NoFrame]
    /\ task' = [task EXCEPT ![t] =
                  IF SPS_Result(t) = KeyError
                  THEN [@ EXCEPT !.pc = "cp1", !.links = FALSE]
                  ELSE [@ EXCEPT !.pc = "run"]]
    /\ UNCHANGED <<active_sessions, now, caller, bg, amrest>>

\* the link stage returns (success, product_links)
LinksDone(t, ok) ==
    /\ task[t].pc = "run" /\ task[t].stage = "links"
    /\ task' = [task EXCEPT ![t].pc = "cp1", ![t].links = ok]
    /\ UNCHANGED <<rmvars, amrest>>

\* lines 124-129
Checkpoint1(t) ==
    /\ task[t].pc = "cp1"
    /\ task' = [task EXCEPT ![t] =
                  IF stop_event \/ ~task[t].links THEN Leave([@ EXCEPT !.links = FALSE])
                  ELSE [@ EXCEPT !.pc = "cp2", !.links = FALSE]]
    /\ UNCHANGED <<rmvars, amrest>>

\* lines 131-132
Checkpoint2(t) ==
    /\ task[t].pc = "cp2"
    /\ task' = [task EXCEPT ![t] =
                  IF stop_event THEN Leave(@)
                  ELSE [@ EXCEPT !.pc = "admit", !.stage = "products"]]
    /\ UNCHANGED <<rmvars, amrest>>

\* parse_products / parse_sellers up to the admission; items: whether there is
\* anything to parse
StageAdmit(t, stage, items) ==
    /\ task[t].pc = "admit" /\ task[t].stage = stage
    /\ stage \in {"products", "sellers"}
    /\ IF ~items
       THEN /\ task' = [task EXCEPT ![t].pc = "cleanup", ![t].ret = 0]
            /\ UNCHANGED <<active_sessions, frame>>
       ELSE IF task[t].user = NoUser
       THEN /\ task' = [task EXCEPT ![t] =
                  SetHolding([@ EXCEPT !.pc = "run",
                                       !.ret = CalculateOptimalWorkers(ItemsOf(stage))],
                             stage, StageWorkers(CalculateOptimalWorkers(ItemsOf(stage))))]
            /\ UNCHANGED <<active_sessions, frame>>
       ELSE /\ SPS_Lock(t, task[t].user, stage, ItemsOf(stage))
            /\ task' = [task EXCEPT ![t].pc = "admitting"]
    /\ UNCHANGED <<now, caller, bg, amrest>>

\* the admission returns and the workers start; a KeyError (raised before the
\* try block) or no worker at all (a division by zero inside it) ends the job
StageAdmitted(t) ==
    /\ task[t].pc = "admitting" /\ task[t].stage \in {"products", "sellers"}
    /\ frame[t].pc = "redistributed"
    /\ frame' = [frame EXCEPT ![t] = NoFrame]
    /\ IF SPS_Result(t) = KeyError
       THEN /\ task' = [task EXCEPT ![t] = Leave(@)]
            /\ UNCHANGED active_sessions
       ELSE IF StageWorkers(SPS_Result(t)) = 0
       THEN /\ task' = [task EXCEPT ![t] = Leave(@)]
            /\ active_sessions' = FinishSession(active_sessions, task[t].user)
       ELSE /\ task' = [task EXCEPT ![t] =
                  SetHolding([@ EXCEPT !.pc = "run", !.ret = SPS_Result(t)],
                             task[t].stage, StageWorkers(SPS_Result(t)))]
            /\ UNCHANGED active_sessions
    /\ UNCHANGED <<now, caller, bg, amrest>>

\* the workers have processed their partitions and closed their fetch sessions
WorkersDone(t) ==
    /\ task[t].pc = "run" /\ task[t].stage \in {"products", "sellers"}
    /\ Holding(task[t], task[t].stage) > 0
    /\ task' = [task EXCEPT ![t] = SetHolding(@, task[t].stage, 0)]
    /\ UNCHANGED <<rmvars, amrest>>

\* finally: finish_parsing_session(self.user_id)
StageFinally(t) ==
    IF task[t].user = NoUser THEN active_sessions
    ELSE FinishSession(active_sessions, task[t].user)

\* the stage returns its records; found: whether the product records name sellers
StageReturn(t, found) ==
    /\ task[t].pc = "run" /\ task[t].stage \in {"products", "sellers"}
    /\ StageMayReturn(StageWorkers(task[t].ret), Holding(task[t], task[t].stage))
    /\ active_sessions' = StageFinally(t)
    /\ task' = [task EXCEPT ![t].pc = "cleanup",
                            ![t].sellers = IF task[t].stage = "products" THEN found
                                           ELSE task[t].sellers]
    /\ UNCHANGED <<now, frame, caller, bg, amrest>>

\* a worker cannot be initialized: its fetch session is closed, the session
\* of the user is released and the exception leaves the job
StageRaise(t) ==
    /\ task[t].pc = "run" /\ task[t].stage \in {"products", "sellers"}
    /\ Holding(task[t], task[t].stage) = StageWorkers(task[t].ret)
    /\ active_sessions' = StageFinally(t)
    /\ task' = [task EXCEPT ![t] = Leave(SetHolding([@ EXCEPT !.ret = 0], task[t].stage, 0))]
    /\ UNCHANGED <<now, frame, caller, bg, amrest>>

\* product_parser.cleanup() / seller_parser.cleanup(), lines 138 and 157
StageCleanup(t) ==
    /\ task[t].pc = "cleanup"
    /\ task' = [task EXCEPT ![t] =
                  SetHolding([@ EXCEPT !.pc = "cp", !.ret = 0], task[t].stage,
                             Cleanup(StageWorkers(task[t].ret),
                                     Holding(task[t], task[t].stage)))]
    /\ UNCHANGED <<rmvars, amrest>>

\* lines 140-157 after the product stage, lines 159-160 after the seller stage
Checkpoint34(t) ==
    /\ task[t].pc = "cp"
    /\ task' = [task EXCEPT ![t] =
                  IF task[t].stage = "products"
                  THEN IF stop_event THEN Leave([@ EXCEPT !.sellers = FALSE])
                       ELSE IF task[t].sellers
                            THEN [@ EXCEPT !.pc = "admit", !.stage = "sellers",
                                           !.sellers = FALSE]
                            ELSE [@ EXCEPT !.pc = "cp", !.stage = "sellers"]
                  ELSE IF stop_event THEN Leave(@)
                       ELSE [@ EXCEPT !.pc = "store_user", !.stage = "store"]]
    /\ UNCHANGED <<rmvars, amrest>>

\* lines 199-200: the bundle is stored for the user
StoreUser(t) ==
    /\ task[t].pc = "store_user"
    /\ user_results' = IF task[t].user = NoUser THEN user_results
                       ELSE [user_results EXCEPT ![task[t].user] = t]
    /\ task' = [task EXCEPT ![t].pc = "store_last"]
    /\ UNCHANGED <<rmvars, jvars, started, active_parsing_users, is_running, stop_event,
                   last_results, ctl>>

\* line 203
StoreLast(t) ==
    /\ task[t].pc = "store_last"
    /\ last_results' = t
    /\ task' = [task EXCEPT ![t].pc = "post"]
    /\ UNCHANGED <<rmvars, jvars, started, active_parsing_users, is_running, stop_event,
                   user_results, ctl>>

\* lines 205-207: the document, the report, the notification
PostProcess(t) ==
    /\ task[t].pc = "post"
    /\ task' = [task EXCEPT ![t] = Leave(@)]
    /\ UNCHANGED <<rmvars, amrest>>

\* a finally that leaves the marking where it is
Unmarked_Kept(active, u) == active

\* lines 86-88: the user of the job is taken out of the active set
Unmarked(active, u) == active \ {u}

\* _parsing_task_wrapper, finally (under parsing_lock)
Finalizer(t) ==
    /\ task[t].pc = "finalizer"
    /\ LET left == Unmarked(active_parsing_users, task[t].user)
       IN  /\ active_parsing_users' = left
           /\ is_running' = IF left = {} THEN FALSE ELSE is_running
    /\ task' = [task EXCEPT ![t] = FreeTask]
    /\ UNCHANGED <<rmvars, jvars, started, stop_event, user_results, last_results, ctl>>

Init == InitRM

Next ==
    \/ \E c \in Ctl, u \in Users \cup {NoUser} : StartParsing(c, u)
    \/ \E c \in Ctl : StartParsing_Add(c)
    \/ \E c \in Ctl : StartParsing_Flag(c)
    \/ \E c \in Ctl : StartParsing_Flag2(c)
    \/ \E c \in Ctl : StartParsing_Launch(c)
    \/ \E c \in Ctl : StartParsing_LaunchFails(c)
    \/ \E c \in Ctl, u \in Users \cup {NoUser} : StopParsing(c, u)
    \/ \E c \in Ctl : CtlReturn(c)
    \/ \E t \in Threads : LinksAdmit(t)
    \/ \E t \in Threads : TaskRedistribute(t)
    \/ \E t \in Threads : LinksAdmitted(t)
    \/ \E t \in Threads, ok \in BOOLEAN : LinksDone(t, ok)
    \/ \E t \in Threads : Checkpoint1(t)
    \/ \E t \in Threads : Checkpoint2(t)
    \/ \E t \in Threads, stage \in {"products", "sellers"}, items \in BOOLEAN :
          StageAdmit(t, stage, items)
    \/ \E t \in Threads : StageAdmitted(t)
    \/ \E t \in Threads : WorkersDone(t)
    \/ \E t \in Threads, found \in BOOLEAN : StageReturn(t, found)
    \/ \E t \in Threads : StageRaise(t)
    \/ \E t \in Threads : StageCleanup(t)
    \/ \E t \in Threads : Checkpoint34(t)
    \/ \E t \in Threads : StoreUser(t)
    \/ \E t \in Threads : StoreLast(t)
    \/ \E t \in Threads : PostProcess(t)
    \/ \E t \in Threads : Finalizer(t)

Spec == Init /\ [][Next]_vars

\* ================================================= one job and its records
\* A product link is a URL /product/<slug>-<article>/ or, without a slug,
\* /product/<article>/.
MaxArticles == 2
MaxLinks == 2
MaxSellerIds == 2

Articles == 1..MaxArticles
SellerIds == 1..MaxSellerIds
Urls == [slug : BOOLEAN, article : Articles]

\* _extract_article_from_url: re.search(r'/product/[^/]+-(\d+)/', url); 0 is ""
ExtractArticle(url) == IF url.slug THEN url.article ELSE 0

\* parse_products, lines 240-244
RECURSIVE ArticlesOf(_)
ArticlesOf(links) ==
    IF links = <<>> THEN <<>>
    ELSE IF ExtractArticle(Head(links)) # 0
         THEN <<ExtractArticle(Head(links))>> \o ArticlesOf(Tail(links))
         ELSE ArticlesOf(Tail(links))

\* what the fetch of one item comes to; seller: the seller id of the payload, 0 if none
Outcomes ==
    [kind : {"ok", "failed"}, seller : SellerIds \cup {0}]
        \cup {[kind |-> "raises", seller |-> 0]}

\* ProductInfo, as ProductWorker.parse_products appends it (lines 61-76)
ProductRecord(article, o) ==
    IF o.kind = "raises"
    THEN [article |-> article, success |-> FALSE, seller_id |-> 0, error |-> "raised"]
    ELSE [article |-> article, success |-> (o.kind = "ok"), seller_id |-> o.seller,
          error |-> IF o.kind = "ok" THEN "" ELSE "failed"]

\* _parsing_task, lines 143-146
RECURSIVE SellerIdList(_)
SellerIdList(product_results) ==
    IF product_results = <<>> THEN <<>>
    ELSE IF Head(product_results).seller_id # 0 /\ Head(product_results).success
         THEN <<Head(product_results).seller_id>> \o SellerIdList(Tail(product_results))
         ELSE SellerIdList(Tail(product_results))

Range(q) == {q[i] : i \in DOMAIN q}

\* list(seller_ids): the list itself, duplicates kept
ListOfSet_Same(ids) == {ids}

\* list(set(seller_ids)): the distinct ids in some order
ListOfSet(ids) ==
    {q \in [1..Cardinality(Range(ids)) -> Range(ids)] :
        \A i, j \in DOMAIN q : i # j => q[i] # q[j]}

\* SellerInfo of one seller
SellerRecord(id, ok) == [seller_id |-> id, success |-> ok]

\* the number of records of a list that satisfy success = v
RECURSIVE CountSuccess(_, _)
CountSuccess(records, v) ==
    IF records = <<>> THEN 0
    ELSE (IF Head(records).success = v THEN 1 ELSE 0) + CountSuccess(Tail(records), v)

\* a bundle that counts the links instead of the product records
Bundle_CountingLinks(folder, links, products, sellers) ==
    [output_folder |-> folder,
     links |-> links,
     products |-> products,
     sellers |-> sellers,
     total_products |-> Len(links),
     successful_products |-> CountSuccess(products, TRUE),
     failed_products |-> CountSuccess(products, FALSE),
     total_sellers |-> Len(sellers),
     successful_sellers |-> CountSuccess(sellers, TRUE),
     seller_data |-> {sellers[i].seller_id : i \in {k \in DOMAIN sellers : sellers[k].success}}]

\* lines 165-196; output_folder names the job (0: no bundle)
Bundle(folder, links, products, sellers) ==
    [output_folder |-> folder,
     links |-> links,
     products |-> products,
     sellers |-> sellers,
     total_products |-> Len(products),
     successful_products |-> CountSuccess(products, TRUE),
     failed_products |-> CountSuccess(products, FALSE),
     total_sellers |-> Len(sellers),
     successful_sellers |-> CountSuccess(sellers, TRUE),
     seller_data |-> {sellers[i].seller_id : i \in {k \in DOMAIN sellers : sellers[k].success}}]

NoBundle == Bundle(0, <<>>, <<>>, <<>>)

\* a downstream step that lets its exception out
AfterDownstream_Escapes(ok, next) == IF ok THEN next ELSE "finalizer"

\* _save_results_to_file, _export_to_excel, _send_via_temp_bot: the body is in
\* try / except Exception, the job goes on with the next step either way
AfterDownstream(ok, next) == next

JobUser == 1

JobOf(links) ==
    [pc |-> "extract", user |-> JobUser, product_links |-> links, articles |-> <<>>,
     product_results |-> <<>>, unique_seller_ids |-> <<>>, seller_results |-> <<>>,
     admitted |-> FALSE, saved |-> "none", exported |-> "none", reported |-> "none"]

\* the job of JobUser has collected its links and passed line 132
InitJob ==
    /\ active_sessions = <<>>
    /\ now = 0
    /\ frame = [th \in 0..NumThreads |-> NoFrame]
    /\ caller = [th \in Threads |-> Idle]
    /\ bg = <<>>
    /\ active_parsing_users = {JobUser}
    /\ is_running = TRUE
    /\ stop_event = FALSE
    /\ user_results = [u \in Users |-> NoBundle]
    /\ last_results = NoBundle
    /\ task = [th \in Threads |-> FreeTask]
    /\ ctl = [c \in Ctl |-> IdleCtl]
    /\ started = 0
    /\ call = NoCall
    /\ \E n \in 1..MaxLinks : \E links \in [1..n -> Urls] :
          /\ \A i, j \in 1..n : i # j => links[i] # links[j]
          /\ job = JobOf(links)

jrest == <<rmvars, task, ctl, started, call>>

\* parse_products, lines 238-248
JobExtract ==
    /\ job.pc = "extract"
    /\ job' = [job EXCEPT !.articles = ArticlesOf(job.product_links),
                          !.pc = IF ArticlesOf(job.product_links) = <<>>
                                 THEN "cp3" ELSE "parse"]
    /\ UNCHANGED <<jrest, active_parsing_users, is_running, stop_event,
                   user_results, last_results>>

\* ProductWorker.parse_products, one pass of the loop of lines 49-78
JobParseItem(o) ==
    /\ job.pc = "parse"
    /\ Len(job.product_results) < Len(job.articles)
    /\ job' = [job EXCEPT !.product_results =
                 Append(@, ProductRecord(job.articles[Len(job.product_results) + 1], o))]
    /\ UNCHANGED <<jrest, active_parsing_users, is_running, stop_event,
                   user_results, last_results>>

\* line 80, and the return of the stage
JobStageReturn ==
    /\ job.pc = "parse"
    /\ Len(job.product_results) = Len(job.articles)
    /\ job' = [job EXCEPT !.pc = "cp3"]
    /\ UNCHANGED <<jrest, active_parsing_users, is_running, stop_event,
                   user_results, last_results>>

\* lines 140-152
JobSellerIds ==
    /\ job.pc = "cp3"
    /\ IF stop_event
       THEN job' = [job EXCEPT !.pc = "finalizer"]
       ELSE \E q \in ListOfSet(SellerIdList(job.product_results)) :
               job' = [job EXCEPT !.unique_seller_ids = q,
                                  !.pc = IF q # <<>> THEN "sellers" ELSE "cp4"]
    /\ UNCHANGED <<jrest, active_parsing_users, is_running, stop_event,
                   user_results, last_results>>

\* lines 154-157: OzonSellerParser.parse_sellers, one record per seller id
JobSellerStage ==
    /\ job.pc = "sellers"
    /\ \E q \in ListOfSet(job.unique_seller_ids) :
       \E ok \in [DOMAIN q -> BOOLEAN] :
          job' = [job EXCEPT !.admitted = TRUE,
                             !.seller_results = [i \in DOMAIN q |-> SellerRecord(q[i], ok[i])],
                             !.pc = "cp4"]
    /\ UNCHANGED <<jrest, active_parsing_users, is_running, stop_event,
                   user_results, last_results>>

\* lines 159-203: the last checkpoint, the bundle and its two stores
JobStore ==
    /\ job.pc = "cp4"
    /\ IF stop_event
       THEN /\ job' = [job EXCEPT !.pc = "finalizer"]
            /\ UNCHANGED <<user_results, last_results>>
       ELSE LET b == Bundle(1, job.product_links, job.product_results, job.seller_results)
            IN  /\ user_results' = [user_results EXCEPT ![job.user] = b]
                /\ last_results' = b
                /\ job' = [job EXCEPT !.pc = "save"]
    /\ UNCHANGED <<jrest, active_parsing_users, is_running, stop_event>>

\* line 205
JobSave(ok) ==
    /\ job.pc = "save"
    /\ job' = [job EXCEPT !.saved = IF ok THEN "ok" ELSE "failed",
                          !.pc = AfterDownstream(ok, "export")]
    /\ UNCHANGED <<jrest, active_parsing_users, is_running, stop_event,
                   user_results, last_results>>

\* line 206
JobExport(ok) ==
    /\ job.pc = "export"
    /\ job' = [job EXCEPT !.exported = IF ok THEN "ok" ELSE "failed",
                          !.pc = AfterDownstream(ok, "report")]
    /\ UNCHANGED <<jrest, active_parsing_users, is_running, stop_event,
                   user_results, last_results>>

\* line 207
JobReport(ok) ==
    /\ job.pc = "report"
    /\ job' = [job EXCEPT !.reported = IF ok THEN "ok" ELSE "failed",
                          !.pc = AfterDownstream(ok, "finalizer")]
    /\ UNCHANGED <<jrest, active_parsing_users, is_running, stop_event,
                   user_results, last_results>>

\* _parsing_task_wrapper, finally
JobFinalizer ==
    /\ job.pc = "finalizer"
    /\ LET left == active_parsing_users \ {job.user}
       IN  /\ active_parsing_users' = left
           /\ is_running' = IF left = {} THEN FALSE ELSE is_running
    /\ job' = [job EXCEPT !.pc = "done"]
    /\ UNCHANGED <<jrest, stop_event, user_results, last_results>>

\* stop_parsing(user_id) while the job runs
JobStop ==
    /\ job.pc # "done"
    /\ job.user \in active_parsing_users
    /\ LET left == active_parsing_users \ {job.user}
       IN  /\ active_parsing_users' = left
           /\ IF RaisesSignal(left)
              THEN stop_event' = TRUE /\ is_running' = FALSE
              ELSE UNCHANGED <<stop_event, is_running>>
    /\ UNCHANGED <<jrest, job, user_results, last_results>>

NextJob ==
    \/ JobExtract
    \/ \E o \in Outcomes : JobParseItem(o)
    \/ JobStageReturn
    \/ JobSellerIds
    \/ JobSellerStage
    \/ JobStore
    \/ \E ok \in BOOLEAN : JobSave(ok)
    \/ \E ok \in BOOLEAN : JobExport(ok)
    \/ \E ok \in BOOLEAN : JobReport(ok)
    \/ JobFinalizer
    \/ JobStop

SpecJob == InitJob /\ [][NextJob]_vars

\* ===================================================== functions, call by call
\* max_retries of _parse_single_product and _parse_single_seller
MAX_RETRIES == 3
\* the longest list of articles handed to _distribute_articles
MaxItems == 3

\* every item goes to the first worker
DistributeArticles_First(articles, num_workers) ==
    [w \in 1..num_workers |-> IF w = 1 THEN articles ELSE <<>>]

\* _distribute_articles, the loop from item i (counted from 0) on
RECURSIVE DistributeFrom(_, _, _, _)
DistributeFrom(articles, num_workers, i, chunks) ==
    IF i >= Len(articles) THEN chunks
    ELSE DistributeFrom(articles, num_workers, i + 1,
                        [chunks EXCEPT ![(i % num_workers) + 1] =
                            Append(@, articles[i + 1])])

\* _distribute_articles
DistributeArticles(articles, num_workers) ==
    DistributeFrom(articles, num_workers, 0, [w \in 1..num_workers |-> <<>>])

\* what one attempt comes to: the record is complete, the page is not loaded,
\* there is no JSON, the JSON has none of the expected fields, an exception
AttemptKinds == {"ok", "fetch_failed", "no_payload", "no_fields", "exception"}

\* an error text that says nothing
ErrorOf_Empty(kind) == ""

\* the error of the record that the last attempt returns
ErrorOf(kind) ==
    CASE kind = "fetch_failed" -> "load_failed"
      [] kind = "no_payload" -> "no_json"
      [] kind = "no_fields" -> "no_fields"
      [] kind = "exception" -> "parse_error"
      [] OTHER -> ""

ItemResult(success, error, attempts, waits) ==
    [success |-> success, error |-> error, attempts |-> attempts, waits |-> waits]

\* the retry loop from attempt a (counted from 0) on; retries: the number of
\* passes of the loop; payload_bound: an attempt without JSON is repeated
\* while a < payload_bound; waits counts the time.sleep(5) calls
RECURSIVE ParseSingle(_, _, _, _, _)
ParseSingle(outcomes, a, waits, retries, payload_bound) ==
    IF a >= retries
    THEN ItemResult(FALSE, "attempts_exhausted", a, waits)
    ELSE LET kind == outcomes[a + 1]
         IN  IF kind = "ok" THEN ItemResult(TRUE, "", a + 1, waits)
             ELSE IF kind = "no_payload"
             THEN IF a < payload_bound
                  THEN ParseSingle(outcomes, a + 1, waits + 1, retries, payload_bound)
                  ELSE ItemResult(FALSE, ErrorOf(kind), a + 1, waits)
             ELSE IF a < retries - 1
                  THEN ParseSingle(outcomes, a + 1, waits + 1, retries, payload_bound)
                  ELSE ItemResult(FALSE, ErrorOf(kind), a + 1, waits)

\* a retry loop that gives up after two attempts
ParseSingleProduct_Two(outcomes) == ParseSingle(outcomes, 0, 0, 2, 1)

\* ProductWorker._parse_single_product: every test is attempt < max_retries - 1
ParseSingleProduct(outcomes) ==
    ParseSingle(outcomes, 0, 0, MAX_RETRIES, MAX_RETRIES - 1)

\* SellerWorker._parse_single_seller: the test after wait_for_json_response is
\* attempt < max_retries
ParseSingleSeller(outcomes) ==
    ParseSingle(outcomes, 0, 0, MAX_RETRIES, MAX_RETRIES)

NoResult == ItemResult(FALSE, "", 0, 0)

\* a price string is a sequence of characters: digits, a space, a comma, the
\* currency sign
MaxPriceLen == 4

Digits == {"0", "1", "9"}

PriceChars == Digits \cup {" ", ",", "R"}

PriceStrings == UNION {[1..n -> PriceChars] : n \in 0..MaxPriceLen}

\* int() of one digit
DigitValue(ch) ==
    CASE ch = "0" -> 0
      [] ch = "1" -> 1
      [] ch = "9" -> 9

\* int(cleaned) for a non-empty string of digits
RECURSIVE IntOf(_)
IntOf(cleaned) ==
    IF Len(cleaned) = 1 THEN DigitValue(cleaned[1])
    ELSE IntOf(SubSeq(cleaned, 1, Len(cleaned) - 1)) * 10
            + DigitValue(cleaned[Len(cleaned)])

\* a price that is read up to the first character that is not a digit
ExtractPriceNumber_Leading(price_str) ==
    LET stop == {i \in 1..Len(price_str) : price_str[i] \notin Digits}
        n == IF stop = {} THEN Len(price_str)
             ELSE (CHOOSE i \in stop : \A j \in stop : i <= j) - 1
    IN  IF n = 0 THEN 0 ELSE IntOf(SubSeq(price_str, 1, n))

\* _extract_price_number: re.sub(r'[^\d]', '', str(price_str)), then int()
ExtractPriceNumber(price_str) ==
    IF price_str = <<>> THEN 0
    ELSE LET cleaned == SelectSeq(price_str, LAMBDA ch : ch \in Digits)
         IN  IF cleaned # <<>> THEN IntOf(cleaned) ELSE 0

\* ------------------------------------------------ the seller's text blocks
\* A text is a sequence of words separated by single spaces.  The words stand
\* for: "OOO" and "ZAO" two legal forms, "Vega" a name, "\"Vega\"" a name in
\* quotes, "Zakazov" and "O magazine" two of the unwanted phrases of line 214,
\* "grafik" a work-schedule keyword of line 253.
MaxWords == 2
MaxAtoms == 2

Words == {"OOO", "ZAO", "Vega", "\"Vega\"", "Zakazov", "O magazine"}

Texts == UNION {[1..n -> Words] : n \in 0..MaxWords}

Inns == {"", "7701234567"}

\* len() of a word
WordLen(w) ==
    CASE w = "OOO" -> 3
      [] w = "ZAO" -> 3
      [] w = "Vega" -> 4
      [] w = "\"Vega\"" -> 6
      [] w = "Zakazov" -> 7
      [] w = "O magazine" -> 10
      [] OTHER -> 6

\* len(text.strip())
RECURSIVE TextLen(_)
TextLen(text) ==
    IF text = <<>> THEN 0
    ELSE IF Len(text) = 1 THEN WordLen(text[1])
    ELSE WordLen(Head(text)) + 1 + TextLen(Tail(text))

\* line 214, lower case
UnwantedPhrases ==
    {"o magazine", "originalnye tovary", "premium magazin", "ponyatno", "zakazov",
     "rabotaet s ozon", "srednyaya otsenka", "kolichestvo otzyvov",
     "eto krupnyi magazin"}

\* line 196
FallbackPhrases == {"o magazine", "originalnye tovary", "premium"}

\* line 228; "AO" is part of "ZAO" and of "PAO"
LegalForms == {"OOO", "IP", "AO", "ZAO", "PAO", "Ltd", "LLC", "Inc", "Co"}

\* the phrases p with p in w.lower()
PhrasesIn(w) ==
    CASE w = "Zakazov" -> {"zakazov"}
      [] w = "O magazine" -> {"o magazine"}
      [] OTHER -> {}

\* the legal forms f with f in w
FormsIn(w) ==
    CASE w = "OOO" -> {"OOO"}
      [] w = "ZAO" -> {"ZAO", "AO"}
      [] OTHER -> {}

\* the keywords of line 253 in w.lower()
KeywordsIn(w) == IF w = "grafik" THEN {"grafik"} ELSE {}

HasQuote(w) == w = "\"Vega\""

\* the phrases of a list that occur in a text
Occurring(phrases, text) == phrases \cap UNION {PhrasesIn(text[i]) : i \in DOMAIN text}

\* raw_data: valid says that json.loads succeeds and finds a list under
\* "body"; atoms are the texts of the textAtom items
AtomTexts == {<<>>, <<"Vega">>, <<"Zakazov">>, <<"grafik">>}

RawData ==
    {[valid |-> FALSE, atoms |-> <<>>]}
       \cup {[valid |-> TRUE, atoms |-> a] :
                a \in UNION {[1..n -> AtomTexts] : n \in 0..MaxAtoms}}

\* points for data in which the tax id counts only without a name
DataPoints_NameOrTaxId(company, inn) ==
    IF company # <<>> THEN 10 ELSE IF inn # "" THEN 15 ELSE 0

\* lines 207-210
DataPoints(company, inn) ==
    (IF company # <<>> THEN 10 ELSE 0) + (IF inn # "" THEN 15 ELSE 0)

\* lines 220-223
Penalty(company) == 20 * Cardinality(Occurring(UnwantedPhrases, company))

\* lines 226-239
NameBonus(company) ==
    IF company = <<>> THEN 0
    ELSE 5 * Cardinality(LegalForms \cap UNION {FormsIn(company[i]) : i \in DOMAIN company})
         + (IF \E i \in DOMAIN company : HasQuote(company[i]) THEN 3 ELSE 0)
         + (IF 5 <= TextLen(company) /\ TextLen(company) <= 100 THEN 2 ELSE 0)

\* lines 242-265
StructureBonus(raw_data) ==
    IF raw_data.valid /\ Len(raw_data.atoms) = 2
    THEN (IF \E i \in DOMAIN raw_data.atoms[2] : KeywordsIn(raw_data.atoms[2][i]) # {}
          THEN 8 ELSE 0)
         + (IF raw_data.atoms[1] # <<>>
                /\ Occurring(UnwantedPhrases, raw_data.atoms[1]) = {}
            THEN 5 ELSE 0)
    ELSE 0

\* _calculate_text_block_score
CalculateTextBlockScore(company, inn, raw_data) ==
    DataPoints(company, inn) - Penalty(company) + NameBonus(company)
       + StructureBonus(raw_data)

\* without: the score of the same candidate with inn = ""
ScoreCalls ==
    {[op |-> "score", done |-> FALSE, company |-> c, inn |-> i, raw_data |-> r,
      result |-> 0, without |-> 0] : c \in Texts, i \in Inns, r \in RawData}

\* the textBlock- widgets of one payload, in the order of the dict.  suffix is
\* the number after "textBlock-" in the key; company and inn are what
\* _extract_company_data returns for the value, taken from a value of two
\* textAtoms: the name and a second text
MaxBlocks == 2
MaxSuffix == 2

BlockNames == {<<>>, <<"OOO", "Vega">>, <<"Zakazov">>, <<"O magazine">>}

SecondTexts == {<<>>, <<"grafik">>}

TextBlocks ==
    {[suffix |-> k, company |-> c, inn |-> i,
      raw_data |-> [valid |-> TRUE, atoms |-> <<c, t>>]] :
        k \in 1..MaxSuffix, c \in BlockNames, i \in Inns, t \in SecondTexts}

Payloads == UNION {[1..n -> TextBlocks] : n \in 0..MaxBlocks}

NoBlock == [company |-> <<>>, inn |-> ""]

\* lines 139-150: the blocks with some data
Candidates(payload) ==
    SelectSeq(payload, LAMBDA b : b.company # <<>> \/ b.inn # "")

\* lines 153-160: best is [company, inn, score]
RECURSIVE BestOf(_, _)
BestOf(text_blocks, best) ==
    IF text_blocks = <<>> THEN best
    ELSE LET b == Head(text_blocks)
             score == CalculateTextBlockScore(b.company, b.inn, b.raw_data)
         IN  BestOf(Tail(text_blocks),
                    IF score > best.score
                    THEN [company |-> b.company, inn |-> b.inn, score |-> score]
                    ELSE best)

\* text_blocks_with_positions.sort(key=position): the sort is stable
RECURSIVE SortByPosition(_)
SortByPosition(blocks) ==
    IF blocks = <<>> THEN <<>>
    ELSE LET i == CHOOSE x \in DOMAIN blocks :
                     \A y \in DOMAIN blocks :
                        \/ blocks[x].suffix < blocks[y].suffix
                        \/ blocks[x].suffix = blocks[y].suffix /\ x <= y
         IN  <<blocks[i]>> \o
             SortByPosition([k \in 1..(Len(blocks) - 1) |->
                               IF k < i THEN blocks[k] ELSE blocks[k + 1]])

\* _fallback_text_block_search
FallbackTextBlockSearch(payload) ==
    LET sorted == SortByPosition(SelectSeq(payload, LAMBDA b : b.company # <<>>))
        fit == SelectSeq(sorted, LAMBDA b : Occurring(FallbackPhrases, b.company) = {})
    IN  IF fit = <<>> THEN NoBlock
        ELSE [company |-> Head(fit).company, inn |-> Head(fit).inn]

\* _pick_best_text_block
PickBestTextBlock(payload) ==
    LET best == BestOf(Candidates(payload), [company |-> <<>>, inn |-> "", score |-> 0])
    IN  IF best.score <= 0 THEN FallbackTextBlockSearch(payload)
        ELSE [company |-> best.company, inn |-> best.inn]

PickCalls ==
    {[op |-> "pick", done |-> FALSE, payload |-> p, result |-> NoBlock] : p \in Payloads}

\* a company name by characters; "OOO" and "IP" stand for the letters of two
\* of the legal forms of line 372, "x" for any other letter
MaxNameLen == 5

CleanForms == {"OOO", "IP", "AO", "ZAO", "PAO"}

NameChars == {"OOO", "IP", " ", ",", "x"}

Names == UNION {[1..n -> NameChars] : n \in 0..MaxNameLen}

\* re.sub(r'\s+', ' ', company)
RECURSIVE CollapseSpaces(_)
CollapseSpaces(name) ==
    IF Len(name) < 2 THEN name
    ELSE IF name[1] = " " /\ name[2] = " " THEN CollapseSpaces(Tail(name))
    ELSE <<name[1]>> \o CollapseSpaces(Tail(name))

\* .strip(), after the runs are collapsed
Strip(name) ==
    LET lead == IF name # <<>> /\ Head(name) = " " THEN Tail(name) ELSE name
    IN  IF lead # <<>> /\ lead[Len(lead)] = " "
        THEN SubSeq(lead, 1, Len(lead) - 1) ELSE lead

\* line 372: the match is replaced by its first group
DropSecondForm(name) ==
    IF /\ Len(name) >= 4
       /\ name[1] \in CleanForms /\ name[2] = " "
       /\ name[3] \in CleanForms /\ name[4] = " "
    THEN <<name[1]>> \o SubSeq(name, 5, Len(name))
    ELSE name

\* re.sub(r'[,\s]+$', '', company)
RECURSIVE StripTrailing(_)
StripTrailing(name) ==
    IF name # <<>> /\ name[Len(name)] \in {",", " "}
    THEN StripTrailing(SubSeq(name, 1, Len(name) - 1))
    ELSE name

\* _clean_company_name
CleanCompanyName(company) ==
    IF company = <<>> THEN <<>>
    ELSE StripTrailing(DropSecondForm(Strip(CollapseSpaces(company))))

CleanCalls ==
    {[op |-> "clean", done |-> FALSE, company |-> c, result |-> <<>>] : c \in Names}

\* max_reload_attempts of _wait_for_antibot_bypass
MAX_RELOAD_ATTEMPTS == 3
\* the most times in a row that a page is found blocked
MaxBlocked == 4

\* an antibot wait that reloads the page for as long as it is blocked
WaitForAntibotBypass_Unbounded(blocked, reload_attempts) ==
    [raised |-> FALSE, reloads |-> reload_attempts + blocked]

\* _wait_for_antibot_bypass for a page that _is_blocked finds blocked the next
\* `blocked` times: it is reloaded while reload_attempts < max_reload_attempts,
\* then Exception("Access blocked after retries") is raised
RECURSIVE WaitForAntibotBypass(_, _)
WaitForAntibotBypass(blocked, reload_attempts) ==
    IF blocked = 0 THEN [raised |-> FALSE, reloads |-> reload_attempts]
    ELSE IF reload_attempts < MAX_RELOAD_ATTEMPTS
    THEN WaitForAntibotBypass(blocked - 1, reload_attempts + 1)
    ELSE [raised |-> TRUE, reloads |-> reload_attempts]

\* what driver.get(url) comes to, and how often the page is blocked after it
Fetches ==
    {[get |-> "loaded", blocked |-> k] : k \in 0..MaxBlocked}
      \cup {[get |-> g, blocked |-> 0] : g \in {"no_driver", "timeout", "webdriver_error"}}

\* navigate_to_url: False without a driver, on TimeoutException and on
\* WebDriverException; the exception of the antibot wait is neither and goes
\* on to the caller
NavigateToUrl(fetch) ==
    IF fetch.get # "loaded" THEN [ret |-> "false", reloads |-> 0]
    ELSE LET w == WaitForAntibotBypass(fetch.blocked, 0)
         IN  [ret |-> IF w.raised THEN "raised" ELSE "true", reloads |-> w.reloads]

\* one pass of the retry loop: navigate_to_url returns False (lines 92-96),
\* raises into the except clause of the pass (line 119), or the pass goes on
\* with the payload
AttemptKindOf(nav, rest) ==
    CASE nav.ret = "false" -> "fetch_failed"
      [] nav.ret = "raised" -> "exception"
      [] OTHER -> rest

FetchCalls ==
    {[op |-> "fetch", done |-> FALSE, worker |-> w, fetches |-> f, rest |-> r,
      navs |-> <<>>, result |-> NoResult] :
        w \in {"product", "seller"}, f \in [1..MAX_RETRIES -> Fetches],
        r \in {"ok", "no_fields"}}

\* ------------------------------------------------- the payload of a product
\* the price texts of a payload: none, "0", "19", the currency sign alone
PriceTexts == {<<>>, <<"0">>, <<"1", "9">>, <<"R">>}

\* the name of a payload: none, or one
ProductNames == {"", "name"}

\* a payload: text that is not JSON, JSON without widgetStates, widgetStates
\* that raise when they are read, or widgetStates with or without the
\* webStickyProducts widget (name) and the webPrice widget (three prices)
JsonShapes == {"bad_json", "no_widget_states", "raises", "data"}

ProductInfo(name, card_price, price, original_price, success, error) ==
    [name |-> name, card_price |-> card_price, price |-> price,
     original_price |-> original_price, success |-> success, error |-> error]

\* line 171: if product_info.name or product_info.card_price
MainInformation(name, card_price, price, original_price) ==
    name # "" \/ card_price # 0

\* ProductWorker._parse_json_response
ParseJsonResponse(p) ==
    CASE p.shape = "bad_json" -> ProductInfo("", 0, 0, 0, FALSE, "json_error")
      [] p.shape = "no_widget_states" -> ProductInfo("", 0, 0, 0, FALSE, "no_widget_states")
      [] p.shape = "raises" -> ProductInfo("", 0, 0, 0, FALSE, "data_error")
      [] OTHER ->
           LET name == IF p.sticky THEN p.name ELSE ""
               card == IF p.price_data THEN ExtractPriceNumber(p.cardPrice) ELSE 0
               price == IF p.price_data THEN ExtractPriceNumber(p.price) ELSE 0
               orig == IF p.price_data THEN ExtractPriceNumber(p.originalPrice) ELSE 0
               ok == MainInformation(name, card, price, orig)
           IN  ProductInfo(name, card, price, orig, ok,
                           IF ok THEN "" ELSE "no_main_information")

JsonCalls ==
    {[op |-> "json", done |-> FALSE,
      payload |-> [shape |-> sh, sticky |-> st, name |-> n, price_data |-> pd,
                   cardPrice |-> c, price |-> p, originalPrice |-> o],
      result |-> ProductInfo("", 0, 0, 0, FALSE, "")] :
        sh \in JsonShapes, st \in BOOLEAN, n \in ProductNames, pd \in BOOLEAN,
        c \in PriceTexts, p \in PriceTexts, o \in PriceTexts}

PriceCalls ==
    {[op |-> "price", done |-> FALSE, price_str |-> p, result |-> 0] : p \in PriceStrings}

\* the arguments of one call
InitFn ==
    /\ active_sessions = <<>>
    /\ now = 0
    /\ frame = [th \in 0..NumThreads |-> NoFrame]
    /\ caller = [th \in Threads |-> Idle]
    /\ bg = <<>>
    /\ active_parsing_users = {}
    /\ is_running = FALSE
    /\ stop_event = FALSE
    /\ user_results = [u \in Users |-> 0]
    /\ last_results = 0
    /\ task = [th \in Threads |-> FreeTask]
    /\ ctl = [c \in Ctl |-> IdleCtl]
    /\ started = 0
    /\ job = NoJob
    /\ \/ \E n \in 0..MaxItems, w \in 1..MAX_WORKERS_PER_USER :
          \E articles \in [1..n -> Articles] :
             call = [op |-> "distribute", done |-> FALSE, articles |-> articles,
                     num_workers |-> w, chunks |-> <<>>]
       \/ \E op \in {"product", "seller"} :
          \E outcomes \in [1..MAX_RETRIES -> AttemptKinds] :
             call = [op |-> op, done |-> FALSE, outcomes |-> outcomes,
                     result |-> NoResult]
       \/ call \in PriceCalls
       \/ call \in ScoreCalls
       \/ call \in PickCalls
       \/ call \in CleanCalls
       \/ call \in FetchCalls
       \/ call \in JsonCalls

FnDistribute ==
    /\ call.op = "distribute" /\ ~call.done
    /\ call' = [call EXCEPT !.done = TRUE,
                            !.chunks = DistributeArticles(call.articles, call.num_workers)]
    /\ UNCHANGED <<rmvars, active_parsing_users, is_running, stop_event,
                   user_results, last_results, task, ctl, started, job>>

FnParseProduct ==
    /\ call.op = "product" /\ ~call.done
    /\ call' = [call EXCEPT !.done = TRUE, !.result = ParseSingleProduct(call.outcomes)]
    /\ UNCHANGED <<rmvars, active_parsing_users, is_running, stop_event,
                   user_results, last_results, task, ctl, started, job>>

FnParseSeller ==
    /\ call.op = "seller" /\ ~call.done
    /\ call' = [call EXCEPT !.done = TRUE, !.result = ParseSingleSeller(call.outcomes)]
    /\ UNCHANGED <<rmvars, active_parsing_users, is_running, stop_event,
                   user_results, last_results, task, ctl, started, job>>

fnrest == <<rmvars, active_parsing_users, is_running, stop_event,
            user_results, last_results, task, ctl, started, job>>

FnExtractPrice ==
    /\ call.op = "price" /\ ~call.done
    /\ call' = [call EXCEPT !.done = TRUE, !.result = ExtractPriceNumber(call.price_str)]
    /\ UNCHANGED fnrest

FnScore ==
    /\ call.op = "score" /\ ~call.done
    /\ call' = [call EXCEPT
                  !.done = TRUE,
                  !.result = CalculateTextBlockScore(call.company, call.inn, call.raw_data),
                  !.without = CalculateTextBlockScore(call.company, "", call.raw_data)]
    /\ UNCHANGED fnrest

FnPick ==
    /\ call.op = "pick" /\ ~call.done
    /\ call' = [call EXCEPT !.done = TRUE, !.result = PickBestTextBlock(call.payload)]
    /\ UNCHANGED fnrest

FnClean ==
    /\ call.op = "clean" /\ ~call.done
    /\ call' = [call EXCEPT !.done = TRUE, !.result = CleanCompanyName(call.company)]
    /\ UNCHANGED fnrest

\* _parse_single_product / _parse_single_seller over a fetch session whose
\* navigate_to_url behaves as call.fetches says
FnFetchItem ==
    /\ call.op = "fetch" /\ ~call.done
    /\ LET navs == [a \in 1..MAX_RETRIES |-> NavigateToUrl(call.fetches[a])]
           outcomes == [a \in 1..MAX_RETRIES |-> AttemptKindOf(navs[a], call.rest)]
       IN  call' = [call EXCEPT !.done = TRUE, !.navs = navs,
                                !.result = IF call.worker = "product"
                                           THEN ParseSingleProduct(outcomes)
                                           ELSE ParseSingleSeller(outcomes)]
    /\ UNCHANGED fnrest

FnParseJson ==
    /\ call.op = "json" /\ ~call.done
    /\ call' = [call EXCEPT !.done = TRUE, !.result = ParseJsonResponse(call.payload)]
    /\ UNCHANGED fnrest

NextFn ==
    \/ FnDistribute
    \/ FnParseProduct
    \/ FnParseSeller
    \/ FnExtractPrice
    \/ FnScore
    \/ FnPick
    \/ FnClean
    \/ FnFetchItem
    \/ FnParseJson

SpecFn == InitFn /\ [][NextFn]_vars

\* ======================================= the jobs of several users, stored
\* Every user has a job that has built its bundle (lines 165-196) and goes on
\* to lines 199-207.  The output folder of a job is named after its category
\* and its second of creation (link_parser.py line 23); the jobs here have
\* different folders, named by the user id.
NoFile == [folder |-> 0, from |-> 0, total_products |-> 0]

NoReport == [from |-> 0, successful |-> 0, failed |-> 0]

\* the bundle of a job with one product record per flag of oks
BundleOf(u, oks) ==
    Bundle(u,
           [i \in DOMAIN oks |-> [slug |-> TRUE, article |-> i]],
           [i \in DOMAIN oks |->
               ProductRecord(i, [kind |-> IF oks[i] THEN "ok" ELSE "failed", seller |-> 0])],
           <<>>)

\* bundle: the local user_results of _parsing_task; document, excel, report:
\* what the job has written and sent; deleted: the folders it has removed;
\* written: the calls of exporter.export_results; sent: the calls of
\* _send_files_to_telegram; notified: the users the workbook was sent to
StoringJob(u, oks) ==
    [pc |-> "store_user", user |-> u, bundle |-> BundleOf(u, oks), exported |-> 0,
     document |-> NoFile, excel |-> NoFile, report |-> NoReport, deleted |-> {},
     written |-> 0, sent |-> 0, notified |-> {}]

InitStored ==
    /\ active_sessions = <<>>
    /\ now = 0
    /\ frame = [th \in 0..NumThreads |-> NoFrame]
    /\ caller = [th \in Threads |-> Idle]
    /\ bg = <<>>
    /\ active_parsing_users = Users
    /\ is_running = TRUE
    /\ stop_event = FALSE
    /\ user_results = [u \in Users |-> NoBundle]
    /\ last_results = NoBundle
    /\ ctl = [c \in Ctl |-> IdleCtl]
    /\ started = 0
    /\ job = NoJob
    /\ call = NoCall
    /\ \E n \in [Users -> 0..MaxArticles] :
       \E oks \in [Users -> [1..MaxArticles -> BOOLEAN]] :
          /\ \A u \in Users : \A i \in 1..MaxArticles : i > n[u] => oks[u][i]
          /\ task = [u \in Users |-> StoringJob(u, [i \in 1..n[u] |-> oks[u][i]])]

srest == <<rmvars, active_parsing_users, is_running, stop_event, ctl, started, jvars>>

\* self.user_results.get(user_id, self.last_results) if user_id else self.last_results
ResultsFor(u) == IF u # NoUser THEN user_results[u] ELSE last_results

\* lines 199-200
StoredUser(u) ==
    /\ task[u].pc = "store_user"
    /\ user_results' = [user_results EXCEPT ![u] = task[u].bundle]
    /\ task' = [task EXCEPT ![u].pc = "store_last"]
    /\ UNCHANGED <<srest, last_results>>

\* line 203
StoredLast(u) ==
    /\ task[u].pc = "store_last"
    /\ last_results' = task[u].bundle
    /\ task' = [task EXCEPT ![u].pc = "save"]
    /\ UNCHANGED <<srest, user_results>>

\* _save_results_to_file, line 216: the folder is that of last_results
DocumentFolder(results) == last_results.output_folder

\* _save_results_to_file: the document of the results of line 224
SaveResultsToFile(u, ok) ==
    /\ task[u].pc = "save"
    /\ task' = [task EXCEPT
                  ![u].pc = "export",
                  ![u].document =
                     IF ok
                     THEN [folder |-> DocumentFolder(ResultsFor(u)),
                           from |-> ResultsFor(u).output_folder,
                           total_products |-> ResultsFor(u).total_products]
                     ELSE @]
    /\ UNCHANGED <<srest, user_results, last_results>>

\* _send_via_temp_bot, lines 430-438: the given user, or every user of the
\* configuration when none is given
TargetUsers(target_user_id, owner) ==
    IF target_user_id # NoUser THEN {target_user_id} ELSE Users

\* _export_to_excel, one pass of the loop of lines 310-353: the workbook of
\* the products so far is written and sent, or is not written, or the pass
\* raises and the loop is left
ExportToExcel(u, outcome) ==
    /\ task[u].pc = "export"
    /\ IF task[u].exported = ResultsFor(u).total_products
       THEN task' = [task EXCEPT ![u].pc = "report"]
       ELSE task' = [task EXCEPT
                       ![u].exported = @ + 1,
                       ![u].excel =
                          IF outcome = "sent"
                          THEN [folder |-> ResultsFor(u).output_folder,
                                from |-> ResultsFor(u).output_folder,
                                total_products |-> task[u].exported + 1]
                          ELSE @,
                       ![u].written = IF outcome = "raised" THEN @ ELSE @ + 1,
                       ![u].sent = IF outcome = "sent" THEN @ + 1 ELSE @,
                       ![u].notified = IF outcome = "sent"
                                       THEN @ \cup TargetUsers(NoUser, u) ELSE @,
                       ![u].pc = CASE outcome = "sent" -> "delete"
                                   [] outcome = "not_exported" -> "export"
                                   [] OTHER -> "report"]
    /\ UNCHANGED <<srest, user_results, last_results>>

\* _send_via_temp_bot, line 512, ten seconds after the workbook was sent:
\* _delete_output_folder removes the folder of last_results
DeleteOutputFolder(u) ==
    /\ task[u].pc = "delete"
    /\ task' = [task EXCEPT
                  ![u].deleted = IF last_results.output_folder # 0
                                 THEN @ \cup {last_results.output_folder} ELSE @,
                  ![u].pc = "export"]
    /\ UNCHANGED <<srest, user_results, last_results>>

\* _send_report_to_telegram: the statistics of the results of line 451; with
\* no product record line 482 divides by zero and nothing is sent
SendReport(u, ok) ==
    /\ task[u].pc = "report"
    /\ task' = [task EXCEPT
                  ![u].pc = "done",
                  ![u].report =
                     IF ok /\ ResultsFor(u).successful_products
                                + ResultsFor(u).failed_products # 0
                     THEN [from |-> ResultsFor(u).output_folder,
                           successful |-> ResultsFor(u).successful_products,
                           failed |-> ResultsFor(u).failed_products]
                     ELSE @]
    /\ UNCHANGED <<srest, user_results, last_results>>

NextStored ==
    \/ \E u \in Users : StoredUser(u)
    \/ \E u \in Users : StoredLast(u)
    \/ \E u \in Users, ok \in BOOLEAN : SaveResultsToFile(u, ok)
    \/ \E u \in Users, outcome \in {"sent", "not_exported", "raised"} :
          ExportToExcel(u, outcome)
    \/ \E u \in Users : DeleteOutputFolder(u)
    \/ \E u \in Users, ok \in BOOLEAN : SendReport(u, ok)

SpecStored == InitStored /\ [][NextStored]_vars

\* ============================================ the jobs of one user, scheduled
\* one step of the job thread t
TaskStep(t) ==
    \/ LinksAdmit(t)
    \/ TaskRedistribute(t)
    \/ LinksAdmitted(t)
    \/ \E ok \in BOOLEAN : LinksDone(t, ok)
    \/ Checkpoint1(t)
    \/ Checkpoint2(t)
    \/ \E stage \in {"products", "sellers"}, items \in BOOLEAN : StageAdmit(t, stage, items)
    \/ StageAdmitted(t)
    \/ WorkersDone(t)
    \/ \E found \in BOOLEAN : StageReturn(t, found)
    \/ StageRaise(t)
    \/ StageCleanup(t)
    \/ Checkpoint34(t)
    \/ StoreUser(t)
    \/ StoreLast(t)
    \/ PostProcess(t)
    \/ Finalizer(t)

\* start_parsing, stop_parsing and restart_parsing for one user, and the job
\* threads they launch
NextLive ==
    \/ \E c \in Ctl : StartParsing(c, JobUser)
    \/ \E c \in Ctl : StartParsing_Add(c)
    \/ \E c \in Ctl : StartParsing_Flag(c)
    \/ \E c \in Ctl : StartParsing_Flag2(c)
    \/ \E c \in Ctl : StartParsing_Launch(c)
    \/ \E c \in Ctl : StartParsing_LaunchFails(c)
    \/ \E c \in Ctl : StopParsing(c, JobUser)
    \/ \E c \in Ctl : CtlReturn(c)
    \/ \E t \in Threads : TaskStep(t)

\* every fetch call and every downstream call returns and the job threads are
\* scheduled: a job thread that can take a step takes one
SpecLive == Init /\ [][NextLive]_vars /\ \A t \in Threads : WF_vars(TaskStep(t))

\* ================================================ one stage and its workers
\* The product stage of user 1 runs on thread 1 while the jobs of other users
\* arrive (BgStart) and the scheduler redistributes.  job holds the run of
\* _parse_multiple_workers: the partitions and what each worker has parsed.
StageArticles == [i \in 1..MaxItems |-> i]

\* a stage that reads the allocation of its session again when it starts its
\* workers
AllocatedWorkers_Reread(returned, sessions, u) ==
    IF HasSession(sessions, u) THEN SessionOf(sessions, u).allocated_workers
    ELSE returned

\* parse_products, lines 251-265: allocated_workers is a local of the call,
\* set from the value the admission returned
AllocatedWorkers(returned, sessions, u) == returned

\* parse_products up to the admission, for the articles of the stage
RunAdmit ==
    /\ caller[1].pc = "idle" /\ job.pc = "none"
    /\ SPS_Lock(1, 1, "products", Len(StageArticles))
    /\ caller' = [caller EXCEPT ![1] = [Idle EXCEPT !.pc = "admitting", !.user = 1,
                                                   !.stage = "products", !.at = now]]
    /\ UNCHANGED <<now, bg, amvars>>

\* _parse_multiple_workers: chunks = self._distribute_articles(articles,
\* num_workers); with no worker line 308 divides by zero
RunDistribute ==
    /\ caller[1].pc = "stage" /\ job.pc = "none"
    /\ LET n == AllocatedWorkers(caller[1].ret, active_sessions, 1)
       IN  job' = IF n = 0
                  THEN [pc |-> "raised", num_workers |-> 0, chunks |-> <<>>,
                        results |-> <<>>]
                  ELSE [pc |-> "run", num_workers |-> n,
                        chunks |-> DistributeArticles(StageArticles, n),
                        results |-> [w \in 1..n |-> <<>>]]
    /\ UNCHANGED <<rmvars, active_parsing_users, is_running, stop_event, user_results,
                   last_results, task, ctl, started, call>>

\* ProductWorker.parse_products, one pass of the loop of lines 49-78 in worker w
WorkerParse(w) ==
    /\ job.pc = "run"
    /\ w \in 1..job.num_workers
    /\ Len(job.results[w]) < Len(job.chunks[w])
    /\ job' = [job EXCEPT !.results[w] = Append(@, job.chunks[w][Len(@) + 1])]
    /\ UNCHANGED <<rmvars, active_parsing_users, is_running, stop_event, user_results,
                   last_results, task, ctl, started, call>>

\* every worker has returned (or the stage has raised); finally:
\* finish_parsing_session(self.user_id)
RunEnd ==
    /\ caller[1].pc = "stage"
    /\ \/ job.pc = "raised"
       \/ /\ job.pc = "run"
          /\ \A w \in 1..job.num_workers : Len(job.results[w]) = Len(job.chunks[w])
    /\ active_sessions' = FinishSession(active_sessions, 1)
    /\ caller' = [caller EXCEPT ![1] = Idle]
    /\ job' = [job EXCEPT !.pc = "done"]
    /\ UNCHANGED <<now, frame, bg, active_parsing_users, is_running, stop_event,
                   user_results, last_results, task, ctl, started, call>>

NextStage ==
    \/ RunAdmit
    \/ CallRedistribute(1)
    \/ CallReturn(1)
    \/ RunDistribute
    \/ \E w \in 1..MAX_WORKERS_PER_USER : WorkerParse(w)
    \/ RunEnd
    \/ BgStart
    \/ BgRedistribute
    \/ BgReturn

SpecStage == InitRM /\ [][NextStage]_vars

\* =================================================================== claims
AllFrames == 0..NumThreads

Mid == \E th \in AllFrames : frame[th].pc = "created"

AllocOf(S) == {S[i].allocated_workers : i \in 1..Len(S)}

Oversubscribed(S) == Len(S) * MIN_WORKERS_PER_USER > MAX_TOTAL_WORKERS

CeilingOrFloor(S) ==
    IF Oversubscribed(S)
    THEN \A a \in AllocOf(S) : a >= MIN_WORKERS_PER_USER
    ELSE SumAllocated(S) <= MAX_TOTAL_WORKERS

\* C1: in every reachable state of the scheduler the allocations sum to at most
\* MAX_TOTAL_WORKERS, unless N * MIN_WORKERS_PER_USER > MAX_TOTAL_WORKERS, and
\* then every session has at least MIN_WORKERS_PER_USER workers.
C1_SumWithinCeilingOrFloorKept == CeilingOrFloor(active_sessions)

\* the stages that run, with their workers
RunningCallers == {th \in Threads : caller[th].pc = "stage"}

RECURSIVE SumSeq(_)
SumSeq(q) == IF Len(q) = 0 THEN 0 ELSE Head(q) + SumSeq(Tail(q))

RECURSIVE SumWorkers(_)
SumWorkers(T) ==
    IF T = {} THEN 0
    ELSE LET th == CHOOSE x \in T : TRUE
         IN  caller[th].workers + SumWorkers(T \ {th})

TotalRunning == SumSeq(bg) + SumWorkers(RunningCallers)

RunningStages == Len(bg) + Cardinality(RunningCallers)

InRange(a) == MIN_WORKERS_PER_USER <= a /\ a <= MAX_WORKERS_PER_USER

\* C3: every session's allocated_workers is in [MIN_WORKERS_PER_USER,
\* MAX_WORKERS_PER_USER] in every reachable state, and so is every value
\* start_parsing_session returns.
C3_AllocationInRange ==
    /\ \A a \in AllocOf(active_sessions) : InRange(a)
    /\ \A th \in Threads : caller[th].pc \in {"stage", "linking"} => InRange(caller[th].ret)

Unique(S) == \A i, j \in 1..Len(S) : S[i].user_id = S[j].user_id => i = j

\* the step of thread th is the locked part of an admission that found a session
AdmitsExisting(th) ==
    /\ frame[th].pc = "none"
    /\ frame'[th].pc = "created"
    /\ frame'[th].existed

\* C4: there is one session per user at most, and an admission for a user that
\* has a session creates none: it sets current_stage and total_items, resets
\* processed_items to 0 and leaves start_time and every other session alone.
C4_OneSessionUpdatedInPlace ==
    [][/\ Unique(active_sessions')
       /\ \A th \in AllFrames : AdmitsExisting(th) =>
             LET u == frame'[th].user
                 i == IndexOf(active_sessions, u)
             IN  /\ Len(active_sessions') = Len(active_sessions)
                 /\ \A j \in 1..Len(active_sessions) :
                       j # i => active_sessions'[j] = active_sessions[j]
                 /\ active_sessions'[i] =
                       [active_sessions[i] EXCEPT
                          !.current_stage = frame'[th].stage,
                          !.total_items = ItemsOf(frame'[th].stage),
                          !.processed_items = 0]]_vars

\* an admission has updated a session that was created at an earlier time and
\* had made progress in another stage
C4_Witness ==
    \E th \in Threads :
        /\ frame[th].pc = "created"
        /\ frame[th].existed
        /\ frame[th].stage = "sellers"
        /\ HasSession(active_sessions, frame[th].user)
        /\ SessionOf(active_sessions, frame[th].user).start_time < now
        /\ SessionOf(active_sessions, frame[th].user).current_stage = "sellers"
        /\ SessionOf(active_sessions, frame[th].user).processed_items = 0

\* a control thread leaves idle with a start_parsing call
StartCall(c) ==
    /\ ctl[c].pc = "idle"
    /\ ctl'[c].pc # "idle"
    /\ ctl'[c].ret # "stopped"

\* C5: a start_parsing call for a user that is in active_parsing_users returns
\* False at once and leaves the active set, is_running, the cancellation
\* signal, the stored bundles, the jobs and the scheduler as they were.
C5_SecondStartRejected ==
    [][\A c \in Ctl :
          (StartCall(c) /\ ctl'[c].user \in active_parsing_users)
          => /\ ctl'[c].pc = "returned"
             /\ ctl'[c].ret = "false"
             /\ UNCHANGED <<active_parsing_users, is_running, stop_event,
                            user_results, last_results, task, rmvars>>]_vars

C5_Witness ==
    \E c \in Ctl :
        /\ ctl[c].pc = "returned" /\ ctl[c].ret = "false"
        /\ ctl[c].user \in active_parsing_users
        /\ \E t \in Threads : task[t].pc # "free" /\ task[t].user = ctl[c].user

\* a control thread has made a stop_parsing call in this step
StopCall(c) ==
    /\ ctl[c].pc = "idle"
    /\ ctl'[c].ret = "stopped"

\* C6: stop_parsing(user) removes that user and nobody else from the active
\* set, stop_parsing() empties it, and the call raises stop_event exactly when
\* the active set is empty afterwards; otherwise stop_event keeps its value.
C6_StopRemovesUserAndSignalsWhenEmpty ==
    [][\A c \in Ctl :
          StopCall(c)
          => /\ active_parsing_users' =
                  IF ctl'[c].user = NoUser THEN {}
                  ELSE active_parsing_users \ {ctl'[c].user}
             /\ stop_event' =
                  IF active_parsing_users' = {} THEN TRUE ELSE stop_event]_vars

\* one of two active users was stopped: the other stays, the signal stays down
C6_Witness ==
    \E c \in Ctl :
        /\ ctl[c].pc = "returned" /\ ctl[c].ret = "stopped"
        /\ ctl[c].user # NoUser
        /\ ctl[c].user \notin active_parsing_users
        /\ active_parsing_users # {}
        /\ ~stop_event

\* C7: a job whose user was stopped while the job was inside a stage starts
\* no later stage and stores no bundle.
C7_StoppedJobStartsNoFurtherStage ==
    \A t \in Threads :
        task[t].stopAt > 0 => StageNo(task[t].stage) <= task[t].stopAt

StageOrder(t) ==
    \/ task'[t].stage = task[t].stage
    \/ task[t].stage = "none" /\ task'[t].stage = "links"
    \/ task[t].stage = "links" /\ task'[t].stage = "products"
    \/ task[t].stage = "products" /\ task'[t].stage = "sellers"
    \/ task[t].stage = "sellers" /\ task'[t].stage = "store"
    \/ task'[t].stage = "none"

Barrier(t) ==
    /\ ~(task[t].holdP > 0 /\ task[t].holdS > 0)
    /\ task[t].holdP > 0 => task[t].stage = "products"
    /\ task[t].holdS > 0 => task[t].stage = "sellers"

\* C8: a job goes through its stages in the order links, products, sellers,
\* and no worker of its product stage holds a fetch session once the job has
\* left that stage: product workers and seller workers of one job never hold
\* fetch sessions at the same time.
C8_StagesInOrderBehindBarrier ==
    /\ [](\A t \in Threads : Barrier(t))
    /\ [][\A t \in Threads : StageOrder(t)]_vars

\* the seller workers of a job hold their fetch sessions, the product workers none
C8_Witness ==
    \E t \in Threads :
        /\ task[t].stage = "sellers" /\ task[t].pc = "run"
        /\ task[t].holdS > 0 /\ task[t].holdP = 0

\* C9: when the job of a user ends, the scheduler holds no session of that user.
C9_JobEndReleasesSession ==
    [][\A t \in Threads :
          (task[t].pc = "finalizer" /\ task'[t].pc = "free" /\ task[t].user # NoUser)
          => ~HasSession(active_sessions', task[t].user)]_vars

\* C10: the admission of the seller stage finds the session of its user.
C10_SellerAdmissionFindsSession ==
    [][\A t \in Threads :
          (task[t].stage = "sellers" /\ task[t].pc = "admit"
             /\ task'[t].pc = "admitting")
          => frame'[t].existed]_vars

\* the checkpoint the job is at makes it return: the link stage failed or
\* yielded nothing (line 127), or the signal is set (lines 124, 131, 140, 159)
AbortsAt(t) ==
    \/ task[t].pc = "cp1" /\ (stop_event \/ ~task[t].links)
    \/ task[t].pc \in {"cp2", "cp"} /\ stop_event

\* C11: a job that returns at a checkpoint (link stage failed or empty, or
\* signal set) goes straight to the end of its task, and neither that step nor
\* the end of the task writes user_results or last_results: no bundle is
\* stored, no document written, and an earlier bundle of the user stays.
C11_AbortStoresNothing ==
    [][\A t \in Threads :
          /\ (AbortsAt(t) /\ task'[t] # task[t])
             => /\ task'[t].pc = "finalizer"
                /\ UNCHANGED <<user_results, last_results>>
          /\ (task[t].pc = "finalizer" /\ task'[t] # task[t])
             => /\ task'[t].pc = "free"
                /\ UNCHANGED <<user_results, last_results>>]_vars

\* a job has returned after its link stage while its user has an earlier bundle
C11_Witness ==
    \E t \in Threads :
        /\ task[t].pc = "finalizer" /\ task[t].stage = "links"
        /\ task[t].user # NoUser
        /\ user_results[task[t].user] # 0
        /\ user_results[task[t].user] # t

\* C12: once the bundle is stored, each of the three downstream steps (the
\* JSON document, the report writer, the notification), failing or not, leaves
\* user_results as it is and is followed by the next one, and the task then
\* ends in its finalizer, which takes the user out of the active set.
C12_DownstreamFailureKeepsBundle ==
    [][/\ (job.pc = "save" /\ job' # job)
          => job'.pc = "export" /\ UNCHANGED user_results
       /\ (job.pc = "export" /\ job' # job)
          => job'.pc = "report" /\ UNCHANGED user_results
       /\ (job.pc = "report" /\ job' # job)
          => job'.pc = "finalizer" /\ UNCHANGED user_results
       /\ (job.pc = "finalizer" /\ job' # job)
          => /\ job'.pc = "done"
             /\ job.user \notin active_parsing_users'
             /\ UNCHANGED user_results]_vars

\* all three downstream steps have failed, the bundle of the job is stored
C12_Witness ==
    /\ job.pc = "done"
    /\ job.saved = "failed" /\ job.exported = "failed" /\ job.reported = "failed"
    /\ user_results[job.user].output_folder = 1
    /\ job.user \notin active_parsing_users

\* the non-empty seller ids of the successful product records
SuccessfulSellerIds ==
    {job.product_results[i].seller_id :
        i \in {k \in DOMAIN job.product_results :
                 /\ job.product_results[k].success
                 /\ job.product_results[k].seller_id # 0}}

\* C13: the seller ids handed to the seller stage are pairwise distinct and
\* are the non-empty seller ids of the successful product records; with no
\* such id there is no seller stage (no admission) and the bundle is stored
\* with zero seller records.
C13_DistinctSellerIdsOfSuccessfulProducts ==
    /\ job.pc \in {"sellers", "cp4", "save", "export", "report"}
       => /\ \A i, j \in DOMAIN job.unique_seller_ids :
                i # j => job.unique_seller_ids[i] # job.unique_seller_ids[j]
          /\ Range(job.unique_seller_ids) = SuccessfulSellerIds
    /\ job.pc \in {"cp4", "save", "export", "report"}
       => job.admitted = (SuccessfulSellerIds # {})
    /\ (job.pc = "save" /\ SuccessfulSellerIds = {})
       => /\ user_results[job.user].output_folder = 1
          /\ user_results[job.user].total_sellers = 0

\* two successful product records name the same seller: one id is handed on
C13_Witness ==
    /\ job.pc = "sellers"
    /\ Len(SellerIdList(job.product_results)) = 2
    /\ Len(job.unique_seller_ids) = 1

\* C15: the product stage returns one record per collected link.
C15_OneRecordPerLink ==
    job.pc \notin {"extract", "parse"}
    => Len(job.product_results) = Len(job.product_links)

Distributed == call.op = "distribute" /\ call.done

\* C14: _distribute_articles over W >= 1 workers makes W partitions and puts
\* item i (counted from 0) at place i div W of partition i mod W; every
\* partition has floor(K/W) or ceil(K/W) items, which together are the K
\* items, each once and in its order.
C14_RoundRobinPartition ==
    Distributed =>
        LET K == Len(call.articles)
            W == call.num_workers
        IN  /\ Len(call.chunks) = W
            /\ \A w \in 1..W :
                  Len(call.chunks[w]) \in {K \div W, (K + W - 1) \div W}
            /\ \A w \in 1..W :
                  Len(call.chunks[w]) = Cardinality({i \in 0..(K - 1) : i % W = w - 1})
            /\ \A i \in 0..(K - 1) :
                  /\ (i \div W) + 1 \in DOMAIN call.chunks[(i % W) + 1]
                  /\ call.chunks[(i % W) + 1][(i \div W) + 1] = call.articles[i + 1]

\* three items over two workers: partitions of two and one
C14_Witness ==
    /\ Distributed
    /\ Len(call.articles) = 3 /\ call.num_workers = 2
    /\ call.articles[1] # call.articles[2]
    /\ Len(call.chunks[1]) = 2 /\ Len(call.chunks[2]) = 1

Parsed == call.op \in {"product", "seller"} /\ call.done

OkAttempts == {a \in 1..MAX_RETRIES : call.outcomes[a] = "ok"}

\* C16: an item gets at most 3 attempts and none after its first successful
\* one; an item whose attempts 1 and 2 fail and whose attempt 3 succeeds has a
\* record with success = true and an empty error, for products and for sellers.
C16_ThirdAttemptSucceeds ==
    Parsed =>
        /\ call.result.attempts <= MAX_RETRIES
        /\ OkAttempts # {}
           => /\ call.result.success
              /\ call.result.error = ""
              /\ \A a \in OkAttempts : call.result.attempts <= a
        /\ OkAttempts = {} => ~call.result.success

\* a seller whose attempts fail, fail, succeed
C16_Witness ==
    /\ Parsed /\ call.op = "seller"
    /\ OkAttempts = {3}
    /\ call.result.success /\ call.result.attempts = 3

\* C17 as stated: three failed attempts give success = false and an error
\* that says that the attempts are exhausted.
C17_ExhaustedErrorCited ==
    (Parsed /\ OkAttempts = {})
    => /\ ~call.result.success
       /\ call.result.error = "attempts_exhausted"

\* C17: three failed attempts give a record with success = false and a
\* non-empty error, which is the error of the third attempt; only a seller
\* whose third attempt got no JSON has the error that the attempts are
\* exhausted.
C17_LastFailureCited ==
    (Parsed /\ OkAttempts = {})
    => /\ ~call.result.success
       /\ call.result.error # ""
       /\ call.result.attempts = MAX_RETRIES
       /\ call.result.error =
            IF call.op = "seller" /\ call.outcomes[MAX_RETRIES] = "no_payload"
            THEN "attempts_exhausted"
            ELSE ErrorOf(call.outcomes[MAX_RETRIES])

\* a product whose attempts fail in three different ways
C17_Witness ==
    /\ Parsed /\ call.op = "product"
    /\ call.outcomes = <<"fetch_failed", "no_payload", "exception">>
    /\ call.result.error = "parse_error"

InAdmission(th) == frame[th].pc \in {"created", "redistributed"}

\* C18: start_parsing_session is one critical section: while a thread is
\* between its locked part and its return nobody else changes or sees the
\* table, and the call returns the allocation of a session that exists and
\* has its workers assigned.
C18_AdmissionInOneCriticalSection ==
    [][\A th \in AllFrames :
          /\ InAdmission(th)
             => \/ frame'[th] # frame[th]
                \/ UNCHANGED <<active_sessions, frame>>
          /\ (frame[th].pc = "redistributed" /\ frame'[th].pc = "none")
             => /\ HasSession(active_sessions, frame[th].user)
                /\ SessionOf(active_sessions, frame[th].user).allocated_workers # 0]_vars

\* sessions created before session i (the dict keeps the order of creation)
Older(S, i) ==
    {j \in 1..Len(S) : S[j].start_time < S[i].start_time
                          \/ (S[j].start_time = S[i].start_time /\ j < i)}

\* the units handed out on top of the base share
Remaining(n) ==
    LET base == Clamp(MAX_TOTAL_WORKERS \div n, MIN_WORKERS_PER_USER, MAX_WORKERS_PER_USER)
    IN  IF base * n < MAX_TOTAL_WORKERS /\ base < MAX_WORKERS_PER_USER
        THEN MAX_TOTAL_WORKERS - base * n ELSE 0

FairlyShared(S) ==
    LET n == Len(S)
        base == Clamp(MAX_TOTAL_WORKERS \div n, MIN_WORKERS_PER_USER, MAX_WORKERS_PER_USER)
    IN  /\ \A i \in 1..n :
              S[i].allocated_workers =
                 base + (IF Cardinality(Older(S, i)) < Remaining(n) THEN 1 ELSE 0)
        /\ \A i, j \in 1..n :
              /\ S[i].allocated_workers - S[j].allocated_workers <= 1
              /\ j \in Older(S, i) => S[j].allocated_workers >= S[i].allocated_workers

\* a step that runs the redistribution: a pass of an admission, or a removal
Redistributes ==
    \/ \E th \in AllFrames : frame[th].pc = "created" /\ frame'[th].pc = "redistributed"
    \/ Len(active_sessions') < Len(active_sessions)

\* C19: after a redistribution over N sessions every session has the base
\* share clamp(floor(15 / N), 2, 5), and when base * N < 15 and base < 5 the
\* 15 - base * N oldest sessions have one more; two allocations differ by at
\* most 1 and an older session never has fewer workers than a younger one.
C19_BaseShareAndOldestFirst ==
    [][(Redistributes /\ Len(active_sessions') > 0)
          => FairlyShared(active_sessions')]_vars

\* four sessions: the three oldest have 4 workers, the youngest has 3
C19_Witness ==
    /\ Len(active_sessions) = 4
    /\ ~Mid
    /\ \A i \in 1..3 : active_sessions[i].allocated_workers = 4
    /\ active_sessions[4].allocated_workers = 3

\* C20: an admission that returns while its user has the only session
\* returns MAX_WORKERS_PER_USER.
C20_SoleSessionGetsMaximum ==
    [][\A th \in Threads :
          (/\ caller[th].pc = "admitting"
           /\ caller'[th].pc # "admitting"
           /\ Len(active_sessions) = 1
           /\ active_sessions[1].user_id = caller[th].user)
          => caller'[th].ret = MAX_WORKERS_PER_USER]_vars

\* the step of thread th is a call of finish_parsing_session
FinishStep(th) == caller[th].pc = "idle" /\ caller'[th].pc = "finished"

Unallocated(S) == [i \in 1..Len(S) |-> [S[i] EXCEPT !.allocated_workers = 0]]

\* C21: finish_parsing_session(u) removes the session of u if there is one,
\* keeps the other sessions and shares the workers among them; for a user
\* without a session (a second call included) it changes nothing, and in both
\* cases it returns without raising.
C21_FinishRemovesOnceAndRedistributes ==
    [][\A th \in Threads : FinishStep(th) =>
          LET u == caller'[th].user
          IN  /\ ~HasSession(active_sessions', u)
              /\ IF HasSession(active_sessions, u)
                 THEN /\ Len(active_sessions') = Len(active_sessions) - 1
                      /\ Unallocated(active_sessions') =
                            Unallocated(SelectSeq(active_sessions,
                                                  LAMBDA s : s.user_id # u))
                      /\ Len(active_sessions') > 0 => FairlyShared(active_sessions')
                 ELSE active_sessions' = active_sessions]_vars

\* the session of user 1 was removed while four sessions shared the workers as
\* 4, 4, 4, 3: the three that remain have 5 each
C21_Witness ==
    /\ caller[1].pc = "finished"
    /\ caller[1].user = 1
    /\ Len(bg) = 3
    /\ bg[3] = 3
    /\ Len(active_sessions) = 3
    /\ \A i \in 1..3 : active_sessions[i].allocated_workers = MAX_WORKERS_PER_USER

\* the step of thread th is a call of update_progress
ProgressStep(th) == caller[th].pc = "idle" /\ caller'[th].pc = "progressed"

\* C22: update_progress(u, n) sets processed_items of the session of u to n and
\* leaves every other field and every other session as it is; without a
\* session of u the table is unchanged and no session is created.
C22_ProgressSetsProcessedItemsOnly ==
    [][\A th \in Threads : ProgressStep(th) =>
          /\ Len(active_sessions') = Len(active_sessions)
          /\ \A i \in 1..Len(active_sessions) :
                active_sessions'[i] =
                   IF active_sessions[i].user_id = caller'[th].user
                   THEN [active_sessions[i] EXCEPT !.processed_items = caller'[th].arg]
                   ELSE active_sessions[i]]_vars

\* one call has set the progress of a session admitted for the link stage
\* to 2, and another call, for a user without a session, has found none
C22_Witness ==
    \E th, other \in Threads :
        /\ caller[th].pc = "progressed"
        /\ caller[th].arg = 2
        /\ HasSession(active_sessions, caller[th].user)
        /\ SessionOf(active_sessions, caller[th].user).processed_items = 2
        /\ SessionOf(active_sessions, caller[th].user).current_stage = "links"
        /\ SessionOf(active_sessions, caller[th].user).total_items = LinkItems
        /\ SessionOf(active_sessions, caller[th].user).allocated_workers = 5
        /\ caller[other].pc = "progressed"
        /\ ~HasSession(active_sessions, caller[other].user)
        /\ Len(active_sessions) = 1

\* a step of the background sweep that removes a session
SweepStep ==
    /\ Len(active_sessions') < Len(active_sessions)
    /\ UNCHANGED <<now, frame, caller>>

\* a call of start_parsing_session or update_progress for user u was made
\* within the timeout and has not returned yet
Touched(u) ==
    \E th \in Threads :
        /\ caller[th].pc \in {"admitting", "progressed"}
        /\ caller[th].user = u
        /\ (now - caller[th].at) * TickMinutes <= SESSION_TIMEOUT_MINUTES

\* C23: the sweep never removes a session that was admitted or had its
\* progress updated within the last SESSION_TIMEOUT_MINUTES, whenever it
\* was created.
C23_RecentlyTouchedSurvivesSweep ==
    [][SweepStep =>
          \A u \in Users :
             (HasSession(active_sessions, u) /\ Touched(u))
                => HasSession(active_sessions', u)]_vars

\* the step of thread c is a start_parsing whose job thread could not be started
LaunchFailure(c) == ctl[c].pc = "launch" /\ ctl'[c].raised

\* C24: a start_parsing whose launch fails returns False, its user is not
\* marked active afterwards, the markings of the other users are as before,
\* and is_running is False when nobody else is marked active.
C24_LaunchFailureRollsBack ==
    [][\A c \in Ctl : LaunchFailure(c) =>
          /\ ctl'[c].pc = "returned"
          /\ ctl'[c].ret = "false"
          /\ ctl'[c].user \notin active_parsing_users'
          /\ \A u \in Users \ {ctl'[c].user} :
                u \in active_parsing_users' <=> u \in active_parsing_users
          /\ active_parsing_users' = {} => ~is_running']_vars

\* the launch for one user has failed while the job of another user runs a
\* stage: the other user is still marked and is_running is still set
C24_Witness ==
    \E c \in Ctl, t \in Threads :
        /\ ctl[c].pc = "returned"
        /\ ctl[c].raised
        /\ ctl[c].user \in Users
        /\ InStage(task[t])
        /\ task[t].user \in Users \ {ctl[c].user}
        /\ active_parsing_users = {task[t].user}
        /\ is_running

\* the statistics of bundle b agree with its records
Consistent(b) ==
    /\ b.total_products = Len(b.products)
    /\ b.total_products = b.successful_products + b.failed_products
    /\ b.successful_products =
          Cardinality({i \in DOMAIN b.products : b.products[i].success})
    /\ b.total_sellers = Len(b.sellers)
    /\ b.successful_sellers <= b.total_sellers
    /\ b.seller_data =
          {b.sellers[i].seller_id : i \in {k \in DOMAIN b.sellers : b.sellers[k].success}}
    /\ \A i, j \in DOMAIN b.sellers :
          (b.sellers[i].success /\ b.sellers[j].success
              /\ b.sellers[i].seller_id = b.sellers[j].seller_id) => i = j
    /\ Cardinality(b.seller_data) = b.successful_sellers

\* C25: a stored bundle has total_products = successful_products +
\* failed_products = the number of its product records, total_sellers = the
\* number of its seller records, successful_sellers <= total_sellers and in
\* seller_data one entry per successful seller record and no other; it holds
\* the records of the job and is stored under the user id of the job only.
C25_BundleStatisticsAgree ==
    /\ Consistent(last_results)
    /\ \A u \in Users :
          /\ Consistent(user_results[u])
          /\ user_results[u] # NoBundle =>
                /\ u = job.user
                /\ user_results[u].products = job.product_results
                /\ user_results[u].sellers = job.seller_results

\* a bundle of two products of two sellers, one of the sellers not parsed
C25_Witness ==
    /\ user_results[JobUser].total_products = 2
    /\ user_results[JobUser].failed_products = 0
    /\ user_results[JobUser].total_sellers = 2
    /\ user_results[JobUser].successful_sellers = 1
    /\ Cardinality(user_results[JobUser].seller_data) = 1

\* what job j has written and sent shows its own bundle, under its own folder
OwnOutput(j) ==
    /\ j.document # NoFile =>
          /\ j.document.folder = j.bundle.output_folder
          /\ j.document.from = j.bundle.output_folder
          /\ j.document.total_products = j.bundle.total_products
    /\ j.excel # NoFile =>
          /\ j.excel.folder = j.bundle.output_folder
          /\ j.excel.from = j.bundle.output_folder
    /\ j.report # NoReport =>
          /\ j.report.from = j.bundle.output_folder
          /\ j.report.successful = j.bundle.successful_products
          /\ j.report.failed = j.bundle.failed_products
    /\ j.deleted \subseteq {j.bundle.output_folder}

\* C26: while the jobs of different users store and post-process their
\* bundles at the same time, the document, the workbook and the report of a
\* job show the bundle of that job only, and a job writes and removes files
\* under its own output folder only.
C26_JobsKeepToTheirOwnBundle == \A u \in Users : OwnOutput(task[u])

Priced == call.op = "price" /\ call.done

\* the positions of the digits of a string, and the number the digits spell
DigitPositions(p) == {i \in 1..Len(p) : p[i] \in Digits}

RECURSIVE Pow10(_)
Pow10(k) == IF k = 0 THEN 1 ELSE 10 * Pow10(k - 1)

RECURSIVE Spelled(_, _)
Spelled(p, pos) ==
    IF pos = {} THEN 0
    ELSE LET i == CHOOSE x \in pos : \A y \in pos : x <= y
         IN  DigitValue(p[i]) * Pow10(Cardinality(pos) - 1) + Spelled(p, pos \ {i})

\* C27: _extract_price_number returns the non-negative integer spelled by the
\* digits of its input in their order, every other character dropped, and 0
\* for an input that is empty or has no digit; it always returns.
C27_PriceIsTheDigitsRead ==
    Priced =>
       /\ call.result >= 0
       /\ call.result = Spelled(call.price_str, DigitPositions(call.price_str))
       /\ DigitPositions(call.price_str) = {} => call.result = 0

\* "1 9R", with a digit on either side of a space and a currency sign, is 19
C27_Witness ==
    /\ Priced
    /\ call.price_str = <<"1", " ", "9", "R">>
    /\ call.result = 19

Scored == call.op = "score" /\ call.done

\* C28: a candidate with a tax id whose name holds no unwanted phrase scores
\* exactly 15 more than the same candidate (same name, same raw data) with an
\* empty tax id, and so strictly more.
C28_TaxIdAddsFifteen ==
    (Scored /\ call.inn # "" /\ Occurring(UnwantedPhrases, call.company) = {}) =>
       /\ call.result = call.without + 15
       /\ call.result > call.without

\* OOO "Vega" with a tax id, two atoms with a work schedule: 48 against 33
C28_Witness ==
    /\ Scored
    /\ call.inn # ""
    /\ call.company = <<"OOO", "\"Vega\"">>
    /\ call.raw_data = [valid |-> TRUE, atoms |-> << <<"Vega">>, <<"grafik">> >>]
    /\ call.result = 48
    /\ call.without = 33

Picked == call.op = "pick" /\ call.done

\* the candidates of a payload, by their place in it
CandidateAt(p) == {i \in DOMAIN p : p[i].company # <<>> \/ p[i].inn # ""}

ScoreAt(p, i) == CalculateTextBlockScore(p[i].company, p[i].inn, p[i].raw_data)

\* candidate i comes before candidate j in ascending order of the suffix
Before(p, i, j) ==
    p[i].suffix < p[j].suffix \/ (p[i].suffix = p[j].suffix /\ i <= j)

Clean(p) == {i \in CandidateAt(p) : Occurring(UnwantedPhrases, p[i].company) = {}}

\* C29: _pick_best_text_block returns the first candidate among those of the
\* highest score when that score is above 0; otherwise it returns the first
\* candidate, in ascending order of the key's number, whose name holds no
\* unwanted phrase, and empty values when there is none.
C29_HighestScoreOrFirstCleanName ==
    Picked =>
       LET p == call.payload
       IN  IF \E i \in CandidateAt(p) : ScoreAt(p, i) > 0
           THEN \E i \in CandidateAt(p) :
                   /\ \A j \in CandidateAt(p) : ScoreAt(p, j) <= ScoreAt(p, i)
                   /\ \A j \in CandidateAt(p) : ScoreAt(p, j) = ScoreAt(p, i) => i <= j
                   /\ call.result = [company |-> p[i].company, inn |-> p[i].inn]
           ELSE IF Clean(p) = {} THEN call.result = NoBlock
           ELSE \E i \in Clean(p) :
                   /\ \A j \in Clean(p) : Before(p, i, j)
                   /\ call.result = [company |-> p[i].company, inn |-> p[i].inn]

Cleaned == call.op = "clean" /\ call.done

\* the name with its runs of spaces collapsed and its ends trimmed begins
\* with two legal forms, a space after each
TwoForms(n) ==
    /\ Len(n) >= 4
    /\ n[1] \in CleanForms /\ n[2] = " "
    /\ n[3] \in CleanForms /\ n[4] = " "

Tidy(name) ==
    /\ \A i \in 1..(Len(name) - 1) : ~(name[i] = " " /\ name[i + 1] = " ")
    /\ name # <<>> => name[Len(name)] \notin {",", " "}

\* C30: _clean_company_name turns a name that begins with the same legal form
\* twice into that form once, one space and the rest of the name; it keeps
\* both forms of a name that begins with two different ones; the result has no
\* run of spaces and no commas or spaces at its end.
C30_DuplicatedFormCollapsed ==
    Cleaned =>
       LET n == Strip(CollapseSpaces(call.company))
       IN  /\ Tidy(call.result)
           /\ (TwoForms(n) /\ n[1] = n[3]) =>
                 call.result = StripTrailing(<<n[1], " ">> \o SubSeq(n, 5, Len(n)))
           /\ (TwoForms(n) /\ n[1] # n[3]) => call.result = StripTrailing(n)

\* the points of _parsing_task that come before a stage: before the link stage
\* (line 122), before the product stage (line 131), before the seller stage
\* (line 140), before the aggregation (line 159)
BeforeStage(t) ==
    \/ task[t].pc = "admit" /\ task[t].stage = "links"
    \/ task[t].pc \in {"cp2", "cp"}

\* C31: the job consults the signal before each of its three stages, the link
\* stage included, and before its post-processing: a step that a job takes
\* from such a point while stop_event is set is its return, and the job does
\* not run its post-processing (lines 205-207) with stop_event set.
C31_SignalConsultedBeforeEveryStep ==
    [][\A t \in Threads :
          (stop_event /\ task'[t] # task[t])
          => /\ BeforeStage(t) => task'[t].pc = "finalizer"
             /\ task[t].pc # "post"]_vars

\* C32: whatever the start_parsing, stop_parsing and restart_parsing calls, no
\* two job tasks of one user are executing at the same time.
C32_OneTaskPerUser ==
    \A t1, t2 \in Threads :
        (t1 # t2 /\ task[t1].pc # "free" /\ task[t2].pc # "free"
           /\ task[t1].user # NoUser)
        => task[t1].user # task[t2].user

\* the job of t ends while a later job of its user is running: the user of t
\* was stopped while t was in a stage and started again, and is marked active
EndsBesideNewJob(t) ==
    /\ task[t].pc = "finalizer" /\ task'[t].pc = "free"
    /\ task[t].user # NoUser
    /\ task[t].stopAt > 0
    /\ task[t].user \in active_parsing_users
    /\ \E t2 \in Threads \ {t} :
          /\ task[t2].pc \notin {"free", "finalizer"}
          /\ task[t2].user = task[t].user
          /\ task[t2].stopAt = 0

\* C37: the end of an old job leaves the marking of the new job of the same
\* user in the active set.
C37_OldJobEndKeepsNewMarking ==
    [][\A t \in Threads :
          EndsBesideNewJob(t) => task[t].user \in active_parsing_users']_vars

\* no start_parsing or stop_parsing call is between its first and last step
Quiescent == \A c \in DOMAIN ctl : ctl[c].pc \in {"idle", "returned"}

\* C38: whenever no orchestrator call is executing, is_running is true exactly
\* when the active set is not empty, and stop_event is set only while
\* is_running is false.
C38_FlagFollowsActiveSet ==
    Quiescent => /\ is_running <=> (active_parsing_users # {})
                 /\ stop_event => ~is_running

\* C39: every job that start_parsing has launched comes to its end, and the
\* step that ends it leaves its user out of the active set.
C39_JobsTerminateAndFreeTheirUser ==
    /\ \A t \in Threads : (task[t].pc # "free") ~> (task[t].pc = "free")
    /\ [][\A t \in Threads :
             (task[t].pc = "finalizer" /\ task'[t].pc = "free")
             => task[t].user \notin active_parsing_users']_vars

\* a job of the user has run to its end and stored its bundle, no job is
\* running, and a later start_parsing of the user has passed the test of line 43
C39_Witness ==
    \E c \in Ctl :
        /\ ctl[c].pc = "add" /\ ctl[c].user = JobUser
        /\ user_results[JobUser] # 0
        /\ JobUser \notin active_parsing_users
        /\ \A t \in Threads : task[t].pc = "free"

\* C34: the 5 seconds are waited after a failed attempt exactly when another
\* attempt follows: a product or a seller whose retry loop made n attempts
\* waited n - 1 times, so 2 times when all 3 attempts failed, whatever the
\* kinds of failure.
C34_BackoffOnlyBeforeAnotherAttempt ==
    Parsed => call.result.waits = call.result.attempts - 1

Fetched == call.op = "fetch" /\ call.done

\* the attempts whose fetch is blocked, times out or does not load
FailedFetches == {a \in 1..MAX_RETRIES : call.navs[a].ret # "true"}

\* C35: an attempt whose fetch is antibot-blocked (after 3 reloads at most),
\* times out or does not load is one failed attempt of its item: if it is not
\* the last attempt the next attempt is made, if it is the last the item gets
\* a failure record with an error, and the call returns a record in every case.
C35_FailedFetchIsAFailedAttempt ==
    Fetched =>
        /\ call.result.attempts \in 1..MAX_RETRIES
        /\ \A a \in 1..MAX_RETRIES : call.navs[a].reloads <= MAX_RELOAD_ATTEMPTS
        /\ \A a \in FailedFetches :
              a <= call.result.attempts
              => IF a < MAX_RETRIES THEN call.result.attempts > a
                 ELSE ~call.result.success /\ call.result.error # ""

\* a product whose three fetches time out, are blocked through three reloads,
\* and do not load
C35_Witness ==
    /\ Fetched /\ call.worker = "product"
    /\ call.fetches[1].get = "timeout"
    /\ call.fetches[2].blocked = MaxBlocked /\ call.navs[2].reloads = MAX_RELOAD_ATTEMPTS
    /\ call.navs[2].ret = "raised"
    /\ call.fetches[3].get = "webdriver_error"
    /\ call.result.attempts = MAX_RETRIES /\ ~call.result.success

JsonParsed == call.op = "json" /\ call.done

\* C36: the record of a product has success = true exactly when the payload
\* was parsed and the record has a name or a card price, a price or an
\* original price other than 0; otherwise it has success = false and an error.
C36_SuccessIffSomeBusinessField ==
    JsonParsed =>
        /\ call.result.success
             <=> /\ call.payload.shape = "data"
                 /\ \/ call.result.name # ""
                    \/ call.result.card_price # 0
                    \/ call.result.price # 0
                    \/ call.result.original_price # 0
        /\ ~call.result.success => call.result.error # ""

\* the job of u has stored a bundle of K >= 1 product records and has run to
\* its end with no exception in the export
Completed(u) ==
    /\ task[u].pc = "done"
    /\ task[u].bundle.total_products >= 1
    /\ task[u].exported = task[u].bundle.total_products
    /\ task[u].written = task[u].exported

\* C40: for a completed job with K >= 1 product records the report writer is
\* called exactly once, with all K records, and at most one file notification
\* is sent, to the user of the job and nobody else.
C40_OneWorkbookOneNotification ==
    \A u \in Users :
        Completed(u)
        => /\ task[u].written = 1
           /\ task[u].excel # NoFile
              => task[u].excel.total_products = task[u].bundle.total_products
           /\ task[u].sent <= 1
           /\ task[u].notified \subseteq {u}

\* C33: a stage runs with as many workers as its admission returned, and with
\* the same number and the same partitions until it ends, whatever the
\* scheduler redistributes meanwhile; every worker parses the items of its
\* partition one after the other, in their order.
C33_WorkersAndPartitionsFixed ==
    /\ [](job.pc = "run"
            => /\ caller[1].pc = "stage"
               /\ job.num_workers = caller[1].ret
               /\ job.chunks = DistributeArticles(StageArticles, caller[1].ret)
               /\ \A w \in 1..job.num_workers :
                     job.results[w] = SubSeq(job.chunks[w], 1, Len(job.results[w])))
    /\ [][job.pc = "run"
            => /\ job'.num_workers = job.num_workers
               /\ job'.chunks = job.chunks
               /\ job'.pc = "run" => caller'[1].ret = caller[1].ret]_vars

\* a stage runs with the 3 workers of its admission, one of its workers has
\* parsed an item, and a later redistribution has left 2 workers to its session
C33_Witness ==
    /\ job.pc = "run" /\ job.num_workers = 3
    /\ \E w \in 1..job.num_workers : Len(job.results[w]) = 1
    /\ HasSession(active_sessions, 1)
    /\ SessionOf(active_sessions, 1).allocated_workers = 2

====
